---------------------------- MODULE Spec2Model ----------------------------
(***************************************************************************)
(* Model of casacraft ("Beautiful Room"): the room-detection handlers      *)
(* (api/rooms/detect-2d*.js), the inpaint handler, and the room-editing    *)
(* client application.                                                     *)
(*                                                                         *)
(* Numbers.  Every coordinate is an integer number of TENTHS of a percent: *)
(* the source's 100 is written Pct(100) = 1000, its 1 is Pct(1) = 10.  A   *)
(* JSON number or a number inside a path string carries at most one        *)
(* fractional digit, so every value of the model is exact.                 *)
(*                                                                         *)
(* Optional values.  A JSON field that may be missing is a sequence of     *)
(* length at most one: << >> is "missing" (undefined / null), <<v>> is v.  *)
(***************************************************************************)
EXTENDS Integers, Sequences, FiniteSets, TLC

\* ----------------------------------------------------------------- bounds
\* Longest polygon (point array) of an input record.
MaxPts == 3
\* Most fragments a path string is concatenated from.
MaxSegs == 3
\* Longest array of records the vision model returns in one answer.
MaxRecords == 3
\* Most rooms the per-room-trace handler's first call enumerates.
MaxRooms == 5

\* The requests (detection runs, generations, inpaint submissions) the app
\* starts in one session.
MaxRequests == 4

\* Calls of handleGenerateRender per session of the render app.
MaxJobs == 2

\* Parts of an array content, and entries of message.images.
MaxParts == 2

\* Requests served by the project API.
MaxCalls == 3

\* -------------------------------------------------------------- arithmetic
Pct(n) == n * 10

Max(a, b) == IF a >= b THEN a ELSE b

Min(a, b) == IF a <= b THEN a ELSE b

\* Math.max(0, Math.min(100, v))
Clamp(v) == Max(Pct(0), Min(Pct(100), v))

\* `o || d` taken as d whatever o is.
TheDefault(o, d) == d

\* `o || d` for an optional number o: the default when o is missing or 0.
OrDefault(o, d) == IF o = << >> \/ o[1] = 0 THEN d ELSE o[1]

RECURSIVE Pow10(_)
Pow10(n) == IF n = 0 THEN 1 ELSE 10 * Pow10(n - 1)

\* ------------------------------------------------------- characters, regex
\* A string is a sequence of one-character strings.
Digits == <<"0", "1", "2", "3", "4", "5", "6", "7", "8", "9">>

IsDigit(c) == \E i \in 1..Len(Digits) : Digits[i] = c

DigitVal(c) == (CHOOSE i \in 1..Len(Digits) : Digits[i] = c) - 1

\* \s
IsSpace(c) == c = " "

\* [,] alone.
IsComma(c) == c = ","

\* [,\s]
IsSep(c) == c = "," \/ IsSpace(c)

\* [ML] under the i flag
IsCmd(c) == c \in {"M", "L", "m", "l"}

\* First position q >= p of s that holds no digit (Len(s)+1 at the end): \d*
DigitsEnd(s, p) ==
  CHOOSE q \in p..(Len(s) + 1) :
    /\ (q = Len(s) + 1 \/ ~IsDigit(s[q]))
    /\ \A r \in p..(q - 1) : IsDigit(s[r])

\* \s*
SpaceEnd(s, p) ==
  CHOOSE q \in p..(Len(s) + 1) :
    /\ (q = Len(s) + 1 \/ ~IsSpace(s[q]))
    /\ \A r \in p..(q - 1) : IsSpace(s[r])

\* [,\s]*
SepEnd(s, p) ==
  CHOOSE q \in p..(Len(s) + 1) :
    /\ (q = Len(s) + 1 \/ ~IsSep(s[q]))
    /\ \A r \in p..(q - 1) : IsSep(s[r])

\* -?\d+(?:\.\d+)? matched at p, greedily: the position after the match, or 0
\* when there is none.  No shorter alternative can make the rest of the
\* pattern match (what follows a number is a separator or the end of the
\* pattern), so the greedy match is the one the regex engine reports.
NumEnd(s, p) ==
  LET a == IF p <= Len(s) /\ s[p] = "-" THEN p + 1 ELSE p
      b == IF a <= Len(s) + 1 THEN DigitsEnd(s, a) ELSE a
  IN  IF b = a THEN 0
      ELSE IF b < Len(s) /\ s[b] = "." /\ IsDigit(s[b + 1])
           THEN DigitsEnd(s, b + 1)
           ELSE b

\* The decimal value of the digits s[p..q-1].
RECURSIVE DigitsValue(_, _, _)
DigitsValue(s, p, q) ==
  IF q <= p THEN 0 ELSE DigitsValue(s, p, q - 1) * 10 + DigitVal(s[q - 1])

\* parseFloat of the number text s[p..q-1], in tenths.
ParseFloat(s, p, q) ==
  LET neg  == s[p] = "-"
      a    == IF neg THEN p + 1 ELSE p
      b    == DigitsEnd(s, a)
      whole == DigitsValue(s, a, b)
      frac == IF b < q
              THEN (DigitsValue(s, b + 1, q) * 10) \div Pow10(q - (b + 1))
              ELSE 0
      v    == whole * 10 + frac
  IN  IF neg THEN 0 - v ELSE v

\* One attempt of /([ML])\s*(-?\d+(?:\.\d+)?)[,\s]+(-?\d+(?:\.\d+)?)/i at p.
MatchAt(s, p) ==
  LET none == [ok |-> FALSE, end |-> p + 1, x |-> 0, y |-> 0]
  IN  IF ~IsCmd(s[p]) THEN none
      ELSE LET a  == SpaceEnd(s, p + 1)
               e1 == NumEnd(s, a)
           IN  IF e1 = 0 THEN none
               ELSE LET c  == SepEnd(s, e1)
                        e2 == IF c = e1 THEN 0 ELSE NumEnd(s, c)
                    IN  IF e2 = 0 THEN none
                        ELSE [ok  |-> TRUE,
                              end |-> e2,
                              x   |-> ParseFloat(s, a, e1),
                              y   |-> ParseFloat(s, c, e2)]

\* The while ((match = regex.exec(pathStr)) !== null) loop from position p.
RECURSIVE ScanPath(_, _)
ScanPath(s, p) ==
  IF p > Len(s) THEN << >>
  ELSE LET m == MatchAt(s, p)
       IN  IF m.ok
           THEN <<[x |-> Clamp(m.x), y |-> Clamp(m.y)]>> \o ScanPath(s, m.end)
           ELSE ScanPath(s, p + 1)

\* parseSvgPath(pathStr): `if (!pathStr) return []` is the empty string.
parseSvgPath(pathStr) == ScanPath(pathStr, 1)

\* ------------------------------------------------- the vision model's records
\* A point of a polygon array: JSON null, or an object whose x and y may be
\* missing.
NullPoint == [kind |-> "null", x |-> << >>, y |-> << >>]

Pt(x, y) == [kind |-> "obj", x |-> x, y |-> y]

\* The polygon field of a record: missing, a truthy value that is no array
\* (a number, a string, an object), or an array of points.
NoPolygon == [kind |-> "absent", pts |-> << >>]

ScalarPolygon == [kind |-> "scalar", pts |-> << >>]

PolygonList(pts) == [kind |-> "list", pts |-> pts]

\* The bounds field of a record: missing, or an object.
NoBounds ==
  [kind |-> "absent", x |-> << >>, y |-> << >>, width |-> << >>, height |-> << >>]

BoundsObj(x, y, w, h) ==
  [kind |-> "obj", x |-> x, y |-> y, width |-> w, height |-> h]

\* One record of the answer: JSON null, or an object.
NullRecord ==
  [kind |-> "null", label |-> << >>, shape |-> << >>, path |-> << >>,
   polygon |-> NoPolygon, bounds |-> NoBounds]

Rec(label, path, polygon, bounds) ==
  [kind |-> "obj", label |-> label, shape |-> << >>, path |-> path,
   polygon |-> polygon, bounds |-> bounds]

SeqsUpTo(S, n) == UNION {[1..k -> S] : k \in 0..n}

RECURSIVE Concat(_)
Concat(ss) == IF ss = << >> THEN << >> ELSE Head(ss) \o Concat(Tail(ss))

\* Input points: out of range on both sides, in range, y missing, the
\* corner (100, 0), and null.
PointSet ==
  {Pt(<<0 - 50>>, <<1200>>), Pt(<<150>>, <<200>>), Pt(<<350>>, << >>),
   Pt(<<1000>>, <<0>>), NullPoint}

\* Pieces of path strings.
FragSet ==
  {<<"M", " ", "1", "5", ",", "2", "0">>,               \* "M 15,20"
   <<" ", "L", "3", "5", " ", "2", "0">>,               \* " L35 20"
   <<" ", "l", "-", "5", ",", " ", "1", "2", "0">>,     \* " l-5, 120"
   <<" ", "L", " ", "2", ".", "5", ",", "4", "0">>,     \* " L 2.5,40"
   <<" ", "Z">>,                                        \* " Z"
   <<" ", "L", " ", "5">>,                              \* " L 5"
   <<" ", "C", "1", ",", "2">>}                         \* " C1,2"

PathSet == {Concat(fs) : fs \in SeqsUpTo(FragSet, MaxSegs)}

BoundsSet ==
  {BoundsObj(x, y, w, h) :
     x \in {<< >>, <<0 - 50>>, <<0>>, <<100>>, <<650>>, <<1000>>},
     y \in {<< >>, <<150>>, <<1000>>},
     w \in {<< >>, <<350>>, <<1500>>},
     h \in {<< >>, <<400>>}}

\* Records of one encoding each, every shape of it.
PolygonRecords ==
  {Rec(<< >>, << >>, PolygonList(pts), NoBounds) : pts \in SeqsUpTo(PointSet, MaxPts)}

PathRecords == {Rec(<< >>, p, NoPolygon, NoBounds) : p \in PathSet}

BoundsRecords == {Rec(<< >>, << >>, NoPolygon, b) : b \in BoundsSet}

\* A few records to build longer answers from.
RecSquare ==
  Rec(<<"Bedroom">>, << >>,
      PolygonList(<<Pt(<<400>>, <<100>>), Pt(<<600>>, <<100>>),
                    Pt(<<600>>, <<350>>), Pt(<<400>>, <<350>>)>>),
      BoundsObj(<<400>>, <<100>>, <<200>>, <<250>>))

RecShort ==
  Rec(<<"Closet">>, << >>,
      PolygonList(<<Pt(<<100>>, <<100>>), Pt(<<200>>, <<100>>)>>), NoBounds)

RecScalarPolygon == Rec(<<"Hall">>, << >>, ScalarPolygon, NoBounds)

RecNullEntry ==
  Rec(<<"Bath">>, << >>,
      PolygonList(<<Pt(<<100>>, <<100>>), NullPoint, Pt(<<200>>, <<300>>),
                    Pt(<<100>>, <<300>>)>>), NoBounds)

\* A path of three corners beside a polygon of two: the path is tried first.
RecPath ==
  Rec(<< >>,
      <<"M", " ", "1", "5", ",", "2", "0", " ", "L", "3", "5", " ", "2", "0",
        " ", "L", " ", "2", ".", "5", ",", "4", "0", " ", "Z">>,
      PolygonList(<<Pt(<<100>>, <<100>>), Pt(<<200>>, <<100>>)>>), NoBounds)

RecEmpty == Rec(<< >>, << >>, NoPolygon, NoBounds)

SmallRecordSet ==
  {NullRecord, RecSquare, RecShort, RecScalarPolygon, RecNullEntry, RecPath,
   RecEmpty}

\* The arrays the vision model may answer with: one record of any shape, or
\* up to MaxRecords of the small set.
ArraySet ==
  {<<r>> : r \in PolygonRecords \cup PathRecords \cup BoundsRecords}
    \cup SeqsUpTo(SmallRecordSet, MaxRecords)

\* ------------------------------------------------ normalizing one record
\* A step that may throw: the value, or threw = TRUE.
Ok(v) == [threw |-> FALSE, val |-> v]

Threw == [threw |-> TRUE, val |-> << >>]

\* (list).map(pt => ({x: clamp(pt.x || 0), y: clamp(pt.y || 0)})): reading
\* .x of a null entry throws a TypeError.
MapPoints(pts) ==
  IF \E i \in 1..Len(pts) : pts[i].kind = "null"
  THEN Threw
  ELSE Ok([i \in 1..Len(pts) |->
             [x |-> Clamp(OrDefault(pts[i].x, 0)),
              y |-> Clamp(OrDefault(pts[i].y, 0))]])

\* (room.polygon || []).map(...): a missing polygon is [], a truthy value
\* that is no array has no .map and throws.
PolygonOfArray(room) ==
  IF room.kind = "null" THEN Threw
  ELSE IF room.polygon.kind = "absent" THEN Ok(<< >>)
  ELSE IF room.polygon.kind = "scalar" THEN Threw
  ELSE MapPoints(room.polygon.pts)

\* if (room.path) parseSvgPath(room.path) else if (room.polygon) ... else []
PolygonOfPathOrArray(room) ==
  IF room.kind = "null" THEN Threw
  ELSE IF room.path # << >> THEN Ok(parseSvgPath(room.path))
  ELSE PolygonOfArray(room)

\* The for (const pt of polygon) loop over one coordinate: min and max are
\* folded from the seeds.
RECURSIVE FoldMin(_, _)
FoldMin(seed, vs) ==
  IF vs = << >> THEN seed ELSE FoldMin(Min(seed, Head(vs)), Tail(vs))

RECURSIVE FoldMax(_, _)
FoldMax(seed, vs) ==
  IF vs = << >> THEN seed ELSE FoldMax(Max(seed, Head(vs)), Tail(vs))

Xs(polygon) == [i \in 1..Len(polygon) |-> polygon[i].x]

Ys(polygon) == [i \in 1..Len(polygon) |-> polygon[i].y]

\* A plausible slip: the minima seeded at 0 like the maxima.
BBoxOfSeededAtZero(polygon) ==
  LET minX == FoldMin(Pct(0), Xs(polygon))
      minY == FoldMin(Pct(0), Ys(polygon))
      maxX == FoldMax(Pct(0), Xs(polygon))
      maxY == FoldMax(Pct(0), Ys(polygon))
  IN  [x |-> minX, y |-> minY, width |-> maxX - minX, height |-> maxY - minY]

\* let minX = 100, minY = 100, maxX = 0, maxY = 0; ... bbox: {x: minX, ...}
BBoxOf(polygon) ==
  LET minX == FoldMin(Pct(100), Xs(polygon))
      minY == FoldMin(Pct(100), Ys(polygon))
      maxX == FoldMax(Pct(0), Xs(polygon))
      maxY == FoldMax(Pct(0), Ys(polygon))
  IN  [x |-> minX, y |-> minY, width |-> maxX - minX, height |-> maxY - minY]

\* label: room.label || `Room ${index + 1}`  (n = 0: the record's own label)
LabelOf(room, index) ==
  IF room.label = << >>
  THEN [text |-> "Room", n |-> index + 1]
  ELSE [text |-> room.label[1], n |-> 0]

\* An emitted room.  id stands for the string `room-${index}`; confidence is
\* 0.9 in tenths; maskUrl is null.
Room(index, label, bbox, polygon) ==
  [id |-> index, label |-> label, confidence |-> 9, bbox |-> bbox,
   polygon |-> polygon, maskUrl |-> "null", featherPx |-> 12]

\* A callback's result that is null (the record is skipped).
Skipped == Ok(<< >>)

\* The map callback on a polygon: null under 3 points, else the room.
RoomOfPolygon(room, index, poly) ==
  IF poly.threw THEN Threw
  ELSE IF Len(poly.val) < 3 THEN Skipped
  ELSE Ok(<<Room(index, LabelOf(room, index), BBoxOf(poly.val), poly.val)>>)

\* detect-2d.js and the Claude path handler: path first, then polygon.
NormalizePathOrArray(room, index) ==
  RoomOfPolygon(room, index, PolygonOfPathOrArray(room))

\* detect-2d-v2.js and detect-2d-v3.js: the polygon array only.
NormalizeArray(room, index) ==
  RoomOfPolygon(room, index, PolygonOfArray(room))

\* The bounds-only handler: never skips a record.
NormalizeBounds(room, index) ==
  IF room.kind = "null" THEN Threw
  ELSE LET x == Clamp(OrDefault(room.bounds.x, 0))
           y == Clamp(OrDefault(room.bounds.y, 0))
           width  == Max(Pct(1), Min(Pct(100) - x, OrDefault(room.bounds.width, Pct(20))))
           height == Max(Pct(1), Min(Pct(100) - y, OrDefault(room.bounds.height, Pct(20))))
       IN  Ok(<<Room(index, LabelOf(room, index),
                     [x |-> x, y |-> y, width |-> width, height |-> height],
                     <<[x |-> x, y |-> y],
                       [x |-> x + width, y |-> y],
                       [x |-> x + width, y |-> y + height],
                       [x |-> x, y |-> y + height]>>)>>)

\* ------------------------------------------------------- the handlers
\* "v1": api/rooms/detect-2d.js; "claude": the Claude handler that reads
\* paths; "v2": detect-2d-v2.js; "v3": detect-2d-v3.js; "bounds": the
\* bounds-only handler; "v4": detect-2d-v4.js.
Normalize(h, room, index) ==
  CASE h \in {"v1", "claude"} -> NormalizePathOrArray(room, index)
    [] h \in {"v2", "v3"}     -> NormalizeArray(room, index)
    [] OTHER                  -> NormalizeBounds(room, index)

\* roomsData.map(callback).filter(Boolean): the rooms in order, or a throw
\* of any callback, which leaves the map.
RECURSIVE MapFilter(_, _, _)
MapFilter(h, roomsData, k) ==
  IF k > Len(roomsData) THEN Ok(<< >>)
  ELSE LET r == Normalize(h, roomsData[k], k - 1)
       IN  IF r.threw THEN Threw
           ELSE LET rest == MapFilter(h, roomsData, k + 1)
                IN  IF rest.threw THEN Threw ELSE Ok(r.val \o rest.val)

\* A response: res.status(s).json(...).
Response(status, rooms, error) ==
  [status |-> status, rooms |-> rooms, error |-> error]

\* What the vision service answers to one call: a network failure (fetch
\* rejects), a non-success status, a body without choices, content that is
\* no JSON, or a JSON value.
Answer(kind, isArray, isNull, items) ==
  [kind |-> kind, isArray |-> isArray, isNull |-> isNull, items |-> items]

FailedAnswers ==
  {Answer(k, FALSE, FALSE, << >>) : k \in {"neterr", "http", "nochoices", "badjson"}}

\* A JSON value that is no array: null, or a number / string / object.
NonArrayAnswers ==
  {Answer("value", FALSE, TRUE, << >>), Answer("value", FALSE, FALSE, << >>)}

ArrayAnswer(items) == Answer("value", TRUE, FALSE, items)

\* The end of every handler once roomsData is parsed: the isArray check, the
\* map, and the outer catch.
RespondRooms(h, ans) ==
  IF ~ans.isArray THEN Response(500, << >>, "Invalid room detection format")
  ELSE LET m == MapFilter(h, ans.items, 1)
       IN  IF m.threw THEN Response(500, << >>, "TypeError")
           ELSE Response(200, m.val, "")

\* The single-call handlers (v1, claude, v3, bounds) from the fetch on.
SingleCallResponse(h, ans) ==
  CASE ans.kind = "neterr"    -> Response(500, << >>, "fetch failed")
    [] ans.kind = "http"      -> Response(502, << >>, "Vision API error")
    [] ans.kind = "nochoices" -> Response(500, << >>, "No response from vision model")
    [] ans.kind = "badjson"   -> Response(500, << >>, "Failed to parse room detection response")
    [] OTHER                  -> RespondRooms(h, ans)

\* The two-pass handler's first answer, when it is a JSON object.
Pass1Obj(b) == Answer("value", FALSE, FALSE, <<Rec(<< >>, << >>, NoPolygon, b)>>)

Pass1Answers ==
  FailedAnswers \cup NonArrayAnswers \cup
    {Pass1Obj(BoundsObj(<<150>>, <<100>>, <<600>>, <<750>>)),
     Pass1Obj(BoundsObj(<<150>>, << >>, <<0>>, << >>))}

\* callVisionAPI throws on every answer that is no JSON value.
CallThrows(ans) == ans.kind # "value"

\* error.message of what callVisionAPI throws.
CallError(ans) ==
  CASE ans.kind = "neterr"    -> "fetch failed"
    [] ans.kind = "http"      -> "Vision API error"
    [] ans.kind = "nochoices" -> "No response from vision model"
    [] OTHER                  -> "SyntaxError"

FullImage == [x |-> Pct(0), y |-> Pct(0), width |-> Pct(100), height |-> Pct(100)]

\* bounds.x || 0, bounds.y || 0, bounds.width || 100, bounds.height || 100
\* of a value that is not null: a field that is missing reads as undefined.
PromptBounds(ans) ==
  LET b == IF ans.items = << >> THEN NoBounds ELSE ans.items[1].bounds
  IN  [x |-> OrDefault(b.x, Pct(0)), y |-> OrDefault(b.y, Pct(0)),
       width |-> OrDefault(b.width, Pct(100)),
       height |-> OrDefault(b.height, Pct(100))]

\* The answers to a rooms call.
AnswerSet ==
  FailedAnswers \cup NonArrayAnswers \cup {ArrayAnswer(a) : a \in ArraySet}

NoAnswer == Answer("none", FALSE, FALSE, << >>)

\* The per-room-trace handler's trace answers: the result object
\* {polygon: ...}, null, or a failure.
TraceObj(polygon) ==
  Answer("value", FALSE, FALSE, <<Rec(<< >>, << >>, polygon, NoBounds)>>)

TraceAnswers ==
  {Answer("http", FALSE, FALSE, << >>), Answer("badjson", FALSE, FALSE, << >>),
   Answer("value", FALSE, TRUE, << >>),
   TraceObj(RecSquare.polygon), TraceObj(RecShort.polygon),
   TraceObj(RecNullEntry.polygon)}

\* What step 1 enumerates: rooms that carry a label.
EnumLabels == <<"Living Room", "Kitchen", "Bedroom", "Bathroom", "Hallway",
                "Balcony", "Office", "Closet">>

EnumRoom(i) == Rec(<<EnumLabels[i]>>, << >>, NoPolygon, NoBounds)

EnumAnswers ==
  FailedAnswers \cup NonArrayAnswers \cup
    {ArrayAnswer([i \in 1..n |-> EnumRoom(i)]) : n \in 0..MaxRooms}

\* The body of the try in batch.map: the trace call, the polygon map, the
\* 3-point test; whatever throws is caught and the result is null.
TraceRoom(room, index, ans) ==
  IF CallThrows(ans) \/ ans.isNull THEN << >>
  ELSE LET rec  == IF ans.items = << >> \/ ans.isArray
                   THEN RecEmpty ELSE ans.items[1]
           poly == PolygonOfArray(rec)
       IN  IF poly.threw \/ Len(poly.val) < 3 THEN << >>
           ELSE <<Room(index, [text |-> room.label[1], n |-> 0],
                       BBoxOf(poly.val), poly.val)>>

\* const index = i + batchIndex, mistaken for the position in the batch.
TraceIndexInBatch(i, batchIndex) == batchIndex

\* const index = i + batchIndex
TraceIndex(i, batchIndex) == i + batchIndex

\* for (let i = 0; i < roomsList.length; i += 4)
BatchSize == 4

\* roomsList.slice(i), every room that is left.
RestPositions(n, i) == 0..(n - i - 1)

\* roomsList.slice(i, i + 4), as positions in the batch (0-based).
BatchPositions(n, i) == 0..(Min(i + BatchSize, n) - i - 1)

\* batchResults.filter(Boolean): the traced rooms of the batch at i, in order.
RECURSIVE BatchRooms(_, _, _, _)
BatchRooms(roomsList, answers, i, batchIndex) ==
  IF batchIndex \notin BatchPositions(Len(roomsList), i) THEN << >>
  ELSE LET index == TraceIndex(i, batchIndex)
       IN  TraceRoom(roomsList[i + batchIndex + 1], index, answers[i + batchIndex + 1])
             \o BatchRooms(roomsList, answers, i, batchIndex + 1)

\* ===================================================== the detection handlers
\* One request to one detection handler.
\*   dHandler  the handler the request is sent to
\*   dPc       where the handler is: start, call, pass1, pass2, identify,
\*             batch, tracing, done
\*   dAnswer   the vision service's answer to the rooms call (to the
\*             enumeration call for v4), NoAnswer before it arrives
\*   dPass1    the answer to the two-pass handler's bounds call
\*   dPrompt   the bounds written into the pass-2 prompt, << >> before
\*   dResps    the responses sent, in order
\*   tI        the batch loop's i
\*   tOut      the trace calls outstanding (0-based room indices)
\*   tAns      the trace answers received, by room (NoAnswer: none yet)
\*   tRooms    the rooms array of the per-room-trace handler
VARIABLES dHandler, dPc, dAnswer, dPass1, dPrompt, dResps, tI, tOut, tAns, tRooms

dvars == <<dHandler, dPc, dAnswer, dPass1, dPrompt, dResps, tI, tOut, tAns, tRooms>>

\* The room-editing app (App): its signals, the requests it has in flight
\* and the edit panel's own signals.
\*   viewState .. renderError   the signals of App, null written "null"
\*   runs        the detection runs whose request is outstanding
\*   gens        the generations in progress (rendering, then saving)
\*   inpaints    the inpaint requests outstanding
\*   panelPrompt the prompt signal of the mounted RoomEditPanel
\*   alerts      the alerts shown
\*   nextRun, nextGen, nextInpaint  the number of the next request
\*   lastRun     the run started last (history)
\*   roomsRun    the run whose result detectedRooms holds, 0 if none (history)
VARIABLES viewState, imageData, galleryImages, currentIndex, detectedRooms,
          selectedRoom, isDetectingRooms, isInpainting, roomDetectionError,
          detectionMethod, renderError, runs, gens, inpaints, panelPrompt,
          alerts, nextRun, nextGen, nextInpaint, lastRun,
          roomsRun

signals == <<viewState, imageData, galleryImages, currentIndex, detectedRooms,
             selectedRoom, isDetectingRooms, isInpainting, roomDetectionError,
             detectionMethod, renderError>>

avars == <<signals, runs, gens, inpaints, panelPrompt, alerts,
           nextRun, nextGen, nextInpaint, lastRun, roomsRun>>

\* One call of inpaintRoom and the inpaint handler that serves it.
\*   iPc        client (inpaintRoom called), start (request at the handler),
\*              create (provider call outstanding), poll (in the loop), done
\*   iReq       the arguments / the request: method, key, body
\*   iFetches   the requests sent to the inpaint endpoint
\*   iCalls     the strength and mask of the predictions created at the
\*              provider
\*   iStatus    result.status
\*   iAttempts  attempts
\*   iResps     the responses sent, in order
VARIABLES iPc, iReq, iFetches, iCalls, iStatus, iAttempts, iResps

ivars == <<iPc, iReq, iFetches, iCalls, iStatus, iAttempts, iResps>>

\* The render app (App of src/App.tsx): upload, generate, show. It has the
\* signals viewState, imageData and renderError under the same names as the
\* room-editing app, and these of its own; fileName and renderProgress are
\* display only and left out.
\*   renderState, selectedStyle, showStylePicker, showHistory   signals
\*   renderResult, currentProject   signals, null written << >>
\*   jobs       the calls of handleGenerateRender in progress (rendering,
\*              then saving)
\*   nextJob    the number of the next call
\*   projects   the projects in local storage
VARIABLES renderState, renderResult, selectedStyle, showStylePicker,
          showHistory, currentProject, jobs, nextJob, projects

rvars == <<renderState, renderResult, selectedStyle, showStylePicker,
           showHistory, currentProject, jobs, nextJob, projects>>

\* One call of parseSvgPath.
\*   pPc      call (called with the path), done (returned)
\*   pFrags   the pieces the path string is made of
\*   pPoints  the points returned
VARIABLES pPc, pFrags, pPoints

pvars == <<pPc, pFrags, pPoints>>

\* One call of generateIsometricRender: the response of the generation service
\* and what the call gave back.
VARIABLES xPc, xResponse, xResult

\* The project API: its store, the DELETE requests between their read of the
\* store and their test of it, the requests served and the last response.
VARIABLES devStore, deleting, served, pResp

xvars == <<xPc, xResponse, xResult, devStore, deleting, served, pResp>>

vars == <<dvars, avars, ivars, rvars, pvars, xvars>>

HandlerIds == {"v1", "claude", "v2", "v3", "bounds", "v4"}

SingleCallHandlers == {"v1", "claude", "v3", "bounds"}

DetectInit ==
  /\ dHandler \in HandlerIds
  /\ dPc = "start"
  /\ dAnswer = NoAnswer
  /\ dPass1 = NoAnswer
  /\ dPrompt = << >>
  /\ dResps = << >>
  /\ tI = 0
  /\ tOut = {}
  /\ tAns = << >>
  /\ tRooms = << >>

\* A response sent without the return: the handler goes on and answers again.
RespondTwice(r) ==
  /\ dResps' = Append(Append(dResps, r), r)
  /\ dPc' = "done"

\* return res.status(...).json(...)
Respond(r) ==
  /\ dResps' = Append(dResps, r)
  /\ dPc' = "done"

\* if (req.method !== 'POST') return 405
RejectMethod ==
  /\ dPc = "start"
  /\ Respond(Response(405, << >>, "Method not allowed"))
  /\ UNCHANGED <<avars, ivars, rvars, pvars, xvars, dHandler, dAnswer, dPass1, dPrompt, tI, tOut, tAns, tRooms>>

\* if (!apiKey) return 500
RejectNoKey ==
  /\ dPc = "start"
  /\ Respond(Response(500, << >>, "OpenRouter API key not configured"))
  /\ UNCHANGED <<avars, ivars, rvars, pvars, xvars, dHandler, dAnswer, dPass1, dPrompt, tI, tOut, tAns, tRooms>>

\* if (!imageData) return 400
RejectNoImage ==
  /\ dPc = "start"
  /\ Respond(Response(400, << >>, "Missing imageData"))
  /\ UNCHANGED <<avars, ivars, rvars, pvars, xvars, dHandler, dAnswer, dPass1, dPrompt, tI, tOut, tAns, tRooms>>

\* A POST with a key and an image reaches the first call.
Accept ==
  /\ dPc = "start"
  /\ dPc' = CASE dHandler = "v2" -> "pass1"
              [] dHandler = "v4" -> "identify"
              [] OTHER           -> "call"
  /\ UNCHANGED <<avars, ivars, rvars, pvars, xvars, dHandler, dAnswer, dPass1, dPrompt, dResps, tI, tOut, tAns, tRooms>>

\* The single-call handlers: the answer arrives and the response is sent.
SingleCall ==
  /\ dPc = "call"
  /\ dHandler \in SingleCallHandlers
  /\ \E ans \in AnswerSet :
       /\ dAnswer' = ans
       /\ Respond(SingleCallResponse(dHandler, ans))
  /\ UNCHANGED <<avars, ivars, rvars, pvars, xvars, dHandler, dPass1, dPrompt, tI, tOut, tAns, tRooms>>

\* Two-pass, pass 1 throws: bounds = {x: 0, y: 0, width: 100, height: 100}.
V2Pass1Fallback ==
  /\ dPc = "pass1"
  /\ \E ans \in Pass1Answers :
       /\ CallThrows(ans)
       /\ dPass1' = ans
       /\ dPrompt' = <<FullImage>>
       /\ dPc' = "pass2"
  /\ UNCHANGED <<avars, ivars, rvars, pvars, xvars, dHandler, dAnswer, dResps, tI, tOut, tAns, tRooms>>

\* Two-pass, pass 1 returns a JSON value that is not null: the prompt is
\* built from its fields.
V2Pass1Value ==
  /\ dPc = "pass1"
  /\ \E ans \in Pass1Answers :
       /\ ~CallThrows(ans)
       /\ ~ans.isNull
       /\ dPass1' = ans
       /\ dPrompt' = <<PromptBounds(ans)>>
       /\ dPc' = "pass2"
  /\ UNCHANGED <<avars, ivars, rvars, pvars, xvars, dHandler, dAnswer, dResps, tI, tOut, tAns, tRooms>>

\* Two-pass, pass 1 returns null: bounds.x throws a TypeError, which the
\* outer catch turns into a 500.
V2Pass1Null ==
  /\ dPc = "pass1"
  /\ \E ans \in Pass1Answers :
       /\ ~CallThrows(ans)
       /\ ans.isNull
       /\ dPass1' = ans
       /\ Respond(Response(500, << >>, "TypeError"))
  /\ UNCHANGED <<avars, ivars, rvars, pvars, xvars, dHandler, dAnswer, dPrompt, tI, tOut, tAns, tRooms>>

\* What the two-pass handler sends once pass 2 has answered.
Pass2Response(ans) ==
  IF CallThrows(ans) THEN Response(500, << >>, CallError(ans))
  ELSE RespondRooms("v2", ans)

V2Pass2 ==
  /\ dPc = "pass2"
  /\ \E ans \in AnswerSet :
       /\ dAnswer' = ans
       /\ Respond(Pass2Response(ans))
  /\ UNCHANGED <<avars, ivars, rvars, pvars, xvars, dHandler, dPass1, dPrompt, tI, tOut, tAns, tRooms>>

\* Per-room trace, step 1 fails or enumerates nothing.
V4IdentifyFails ==
  /\ dPc = "identify"
  /\ \E ans \in EnumAnswers :
       /\ CallThrows(ans) \/ ~ans.isArray \/ ans.items = << >>
       /\ dAnswer' = ans
       /\ Respond(IF CallThrows(ans)
                  THEN Response(500, << >>, CallError(ans))
                  ELSE Response(500, << >>, "No rooms identified"))
  /\ UNCHANGED <<avars, ivars, rvars, pvars, xvars, dHandler, dPass1, dPrompt, tI, tOut, tAns, tRooms>>

\* Per-room trace, step 1 enumerates rooms: const rooms = []; i = 0.
V4Identify ==
  /\ dPc = "identify"
  /\ \E ans \in EnumAnswers :
       /\ ~CallThrows(ans) /\ ans.isArray /\ ans.items # << >>
       /\ dAnswer' = ans
       /\ tAns' = [k \in 1..Len(ans.items) |-> NoAnswer]
  /\ tI' = 0
  /\ tRooms' = << >>
  /\ dPc' = "batch"
  /\ UNCHANGED <<avars, ivars, rvars, pvars, xvars, dHandler, dPass1, dPrompt, dResps, tOut>>

\* batch.map(async ...): every call of the batch is issued before the
\* handler awaits Promise.all.
V4IssueBatch ==
  /\ dPc = "batch"
  /\ tOut' = {tI + b : b \in BatchPositions(Len(dAnswer.items), tI)}
  /\ dPc' = "tracing"
  /\ UNCHANGED <<avars, ivars, rvars, pvars, xvars, dHandler, dAnswer, dPass1, dPrompt, dResps, tI, tAns, tRooms>>

\* One outstanding trace call is answered.
V4TraceReply ==
  /\ dPc = "tracing"
  /\ \E k \in tOut, ans \in TraceAnswers :
       /\ tAns' = [tAns EXCEPT ![k + 1] = ans]
       /\ tOut' = tOut \ {k}
  /\ UNCHANGED <<avars, ivars, rvars, pvars, xvars, dHandler, dPc, dAnswer, dPass1, dPrompt, dResps, tI, tRooms>>

\* Promise.all resolves: rooms.push(...batchResults.filter(Boolean)); the
\* loop goes on with the next batch.
V4NextBatch ==
  /\ dPc = "tracing"
  /\ tOut = {}
  /\ tI + BatchSize < Len(dAnswer.items)
  /\ tRooms' = tRooms \o BatchRooms(dAnswer.items, tAns, tI, 0)
  /\ tI' = tI + BatchSize
  /\ dPc' = "batch"
  /\ UNCHANGED <<avars, ivars, rvars, pvars, xvars, dHandler, dAnswer, dPass1, dPrompt, dResps, tOut, tAns>>

\* ... or, after the last batch, the handler answers 200 with the rooms.
V4Finish ==
  /\ dPc = "tracing"
  /\ tOut = {}
  /\ tI + BatchSize >= Len(dAnswer.items)
  /\ LET rooms == tRooms \o BatchRooms(dAnswer.items, tAns, tI, 0)
     IN  /\ tRooms' = rooms
         /\ Respond(Response(200, rooms, ""))
  /\ tI' = tI + BatchSize
  /\ UNCHANGED <<avars, ivars, rvars, pvars, xvars, dHandler, dAnswer, dPass1, dPrompt, tOut, tAns>>

DetectNext ==
  \/ RejectMethod
  \/ RejectNoKey
  \/ RejectNoImage
  \/ Accept
  \/ SingleCall
  \/ V2Pass1Fallback
  \/ V2Pass1Value
  \/ V2Pass1Null
  \/ V2Pass2
  \/ V4IdentifyFails
  \/ V4Identify
  \/ V4IssueBatch
  \/ V4TraceReply
  \/ V4NextBatch
  \/ V4Finish

\* ======================================================= the room-editing app
\* The images a user uploads (data URLs).
Images == {"A", "B"}

\* createSignal<'v1' | 'v2'>
Methods == {"v1", "v2"}

AUTO_STYLES == <<"modern", "traditional">>

Null == "null"

\* The data of a gallery entry: an uploaded image, the render of an image in
\* a style, or the output of inpaint request n.
Upload(img) == [kind |-> "upload", img |-> img, style |-> "", n |-> 0]

Rendered(img, style) == [kind |-> "render", img |-> img, style |-> style, n |-> 0]

Inpainted(n) == [kind |-> "inpaint", img |-> "", style |-> "", n |-> n]

GalleryImage(type, style, data, label) ==
  [type |-> type, style |-> style, data |-> data, label |-> label]

Original(image) == GalleryImage("original", "", Upload(image), "Original")

\* getStyleConfig(style).label
StyleLabel(style) ==
  IF style = "modern" THEN "Moderne minimalistisk" ELSE "Tradisjonell elegant"

Render(image, style) ==
  GalleryImage("render", style, Rendered(image, style), StyleLabel(style))

\* An array slot never written.
Hole == GalleryImage("hole", "", Upload(""), "")

\* const currentImage = () => galleryImages()[currentIndex()], undefined
\* written << >>.
CurrentImageOf(images, idx) ==
  IF idx + 1 \in DOMAIN images /\ images[idx + 1].type # "hole"
  THEN <<images[idx + 1]>> ELSE << >>

CurrentImage == CurrentImageOf(galleryImages, currentIndex)

\* newImages = [...images]; newImages[idx] = {...newImages[idx], data}
WriteAt(images, idx, data) ==
  [i \in 1..Max(Len(images), idx + 1) |->
     IF i = idx + 1
     THEN IF i <= Len(images) /\ images[i].type # "hole"
          THEN [images[i] EXCEPT !.data = data]
          ELSE GalleryImage("undefined", "", data, "")
     ELSE IF i <= Len(images) THEN images[i] ELSE Hole]

\* The outcomes of inpaintRoom: the result, fetch rejecting, a non-success
\* status with the service's error text or with the poll timeout.
InpaintOutcomes == {"ok", "neterr", "service-error", "timeout"}

\* The try block of handleInpaint writes the gallery after inpaintRoom
\* returned, as if it wrote it before.
GalleryWrittenBeforeResult(images, idx, outcome, n) ==
  WriteAt(images, idx, Inpainted(n))

\* The gallery after handleInpaint's try/catch: written only when inpaintRoom
\* returned a result.
GalleryAfterInpaint(images, idx, outcome, n) ==
  IF outcome = "ok" THEN WriteAt(images, idx, Inpainted(n)) ELSE images

\* The rooms the vision model sees in each floor plan.
PlanRooms(image) ==
  IF image = "A" THEN <<RecSquare, RecPath>> ELSE <<RecPath, RecSquare>>

\* What the vision service answers for a floor plan.
VisionAnswers(image) ==
  {ArrayAnswer(PlanRooms(image)), ArrayAnswer(<< >>),
   Answer("http", FALSE, FALSE, << >>)}

\* DETECT_URLS[method]: the handler's response to the answer (two-pass: the
\* answer of pass 2).
DetectServer(method, ans) ==
  IF method = "v1" THEN SingleCallResponse("v1", ans) ELSE Pass2Response(ans)

\* detectRoomsFrom2D: throws when fetch rejects or the status is no success,
\* else returns the body.
DetectResult(threw, rooms, message) ==
  [threw |-> threw, rooms |-> rooms, message |-> message]

FromResponse(resp) ==
  IF resp.status \notin 200..299
  THEN DetectResult(TRUE, << >>, "Room detection failed")
  ELSE DetectResult(FALSE, resp.rooms, "")

\* The results of detectRoomsFrom2D(image, method), by image and method.
DetectResults ==
  [image \in Images |-> [method \in Methods |->
     {DetectResult(TRUE, << >>, "Failed to fetch")}
       \cup {FromResponse(DetectServer(method, ans)) : ans \in VisionAnswers(image)}]]

\* Text of the prompt textarea, as characters.
Prompts == {<< >>, <<" ">>, <<" ", "c", "o", "z", "y">>}

\* String.prototype.trim
RECURSIVE TrimStart(_)
TrimStart(s) ==
  IF s # << >> /\ IsSpace(Head(s)) THEN TrimStart(Tail(s)) ELSE s

RECURSIVE TrimEnd(_)
TrimEnd(s) ==
  IF s # << >> /\ IsSpace(s[Len(s)]) THEN TrimEnd(SubSeq(s, 1, Len(s) - 1)) ELSE s

\* trim() that removes nothing.
TrimNothing(s) == s

Trim(s) == TrimEnd(TrimStart(s))

\* The values of the strength slider (min 0.3, max 1, step 0.05), in
\* hundredths.
SliderValues == {30, 80, 100}

DefaultStrength == 80

\* The Apply button without its isProcessing condition.
SubmitEnabledWhileProcessing(prompt, isProcessing) == Trim(prompt) # << >>

\* disabled={!prompt().trim() || props.isProcessing}
SubmitEnabled(prompt, isProcessing) == Trim(prompt) # << >> /\ ~isProcessing

NoRun == [id |-> 0, image |-> Null, method |-> "v1"]

\* The state after App() is constructed.
AppInit ==
  /\ viewState = "upload"
  /\ imageData = Null
  /\ galleryImages = << >>
  /\ currentIndex = 0
  /\ detectedRooms = << >>
  /\ selectedRoom = << >>
  /\ isDetectingRooms = FALSE
  /\ isInpainting = FALSE
  /\ roomDetectionError = Null
  /\ detectionMethod = "v1"
  /\ renderError = Null
  /\ runs = {}
  /\ gens = {}
  /\ inpaints = {}
  /\ panelPrompt = << >>
  /\ alerts = 0
  /\ nextRun = 1
  /\ nextGen = 1
  /\ nextInpaint = 1
  /\ lastRun = NoRun
  /\ roomsRun = 0

\* The requests started so far; a new one starts while the session's budget
\* lasts.
RequestsStarted == (nextRun - 1) + (nextGen - 1) + (nextInpaint - 1)

MayRequest == RequestsStarted < MaxRequests

\* <Show when={selectedRoom()}> inside the editing view: the panel is mounted.
PanelMounted == viewState = "editing" /\ selectedRoom # << >>

\* The panel's prompt lives as long as the panel stays mounted; a panel
\* mounted anew starts from createSignal('').
PanelFollows ==
  IF PanelMounted /\ PanelMounted'
  THEN UNCHANGED panelPrompt
  ELSE panelPrompt' = << >>

\* runRoomDetection up to its await: the flags are set and the request leaves.
StartRun(image, method) ==
  /\ isDetectingRooms' = TRUE
  /\ roomDetectionError' = Null
  /\ detectedRooms' = << >>
  /\ runs' = runs \cup {[id |-> nextRun, image |-> image, method |-> method]}
  /\ lastRun' = [id |-> nextRun, image |-> image, method |-> method]
  /\ nextRun' = nextRun + 1
  /\ roomsRun' = 0

\* handleFileSelect, from the upload view.
FileSelect ==
  /\ viewState = "upload"
  /\ MayRequest
  /\ \E dataUrl \in Images :
       /\ imageData' = dataUrl
       /\ StartRun(dataUrl, detectionMethod)
  /\ viewState' = "planning"
  /\ UNCHANGED <<galleryImages, currentIndex, selectedRoom, isInpainting,
                 detectionMethod, renderError, gens, inpaints, alerts, nextGen,
                 nextInpaint, dvars, ivars, rvars, pvars, xvars>>
  /\ PanelFollows

\* handleRetryDetection, from the method toggle (disabled while detecting).
RetryDetection ==
  /\ viewState = "planning"
  /\ ~isDetectingRooms
  /\ MayRequest
  /\ \E method \in Methods :
       /\ detectionMethod' = method
       /\ IF imageData # Null
          THEN StartRun(imageData, method)
          ELSE UNCHANGED <<isDetectingRooms, roomDetectionError, detectedRooms,
                           runs, lastRun, nextRun, roomsRun>>
  /\ UNCHANGED <<viewState, imageData, galleryImages, currentIndex, selectedRoom,
                 isInpainting, renderError, gens, inpaints, alerts, nextGen,
                 nextInpaint, dvars, ivars, rvars, pvars, xvars>>
  /\ PanelFollows

\* runRoomDetection from its await on: the result or the error is stored and
\* the flag is cleared.
DetectionReturns ==
  /\ \E r \in runs : \E res \in DetectResults[r.image][r.method] :
       /\ runs' = runs \ {r}
       /\ IF res.threw
          THEN /\ roomDetectionError' = res.message
               /\ UNCHANGED <<detectedRooms, roomsRun>>
          ELSE IF Len(res.rooms) = 0
          THEN /\ roomDetectionError' = "No rooms detected in the floor plan"
               /\ UNCHANGED <<detectedRooms, roomsRun>>
          ELSE /\ detectedRooms' = res.rooms
               /\ roomsRun' = r.id
               /\ UNCHANGED roomDetectionError
  /\ isDetectingRooms' = FALSE
  /\ UNCHANGED <<viewState, imageData, galleryImages, currentIndex, selectedRoom,
                 isInpainting, detectionMethod, renderError, gens, inpaints,
                 alerts, nextRun, nextGen, nextInpaint, lastRun, dvars, ivars, rvars, pvars, xvars>>
  /\ PanelFollows

\* handleNewRender: Back on the planning view, New on the render view.
NewRender ==
  /\ viewState \in {"planning", "render"}
  /\ viewState' = "upload"
  /\ imageData' = Null
  /\ galleryImages' = << >>
  /\ currentIndex' = 0
  /\ renderError' = Null
  /\ detectedRooms' = << >>
  /\ selectedRoom' = << >>
  /\ roomDetectionError' = Null
  /\ roomsRun' = 0
  /\ UNCHANGED <<isDetectingRooms, isInpainting, detectionMethod, runs, gens,
                 inpaints, alerts, nextRun, nextGen, nextInpaint, lastRun,
                 dvars, ivars, rvars, pvars, xvars>>
  /\ PanelFollows

\* handleStartGeneration and handleGenerateRenders up to its await, from
\* Generate 3D (disabled while detecting or without rooms).
StartGeneration ==
  /\ viewState = "planning"
  /\ ~isDetectingRooms /\ Len(detectedRooms) # 0
  /\ imageData # Null
  /\ MayRequest
  /\ viewState' = "generating"
  /\ renderError' = Null
  /\ galleryImages' = <<Original(imageData)>>
  /\ gens' = gens \cup {[id |-> nextGen, image |-> imageData,
                           phase |-> "rendering", ok |-> {}]}
  /\ nextGen' = nextGen + 1
  /\ UNCHANGED <<imageData, currentIndex, detectedRooms, selectedRoom,
                 isDetectingRooms, isInpainting, roomDetectionError,
                 detectionMethod, runs, inpaints, alerts, nextRun, nextInpaint,
                 lastRun, roomsRun, dvars, ivars, rvars, pvars, xvars>>
  /\ PanelFollows

\* The renders pushed for the styles that returned an image, in style order.
RECURSIVE RendersOf(_, _, _)
RendersOf(image, ok, k) ==
  IF k > Len(AUTO_STYLES) THEN << >>
  ELSE (IF AUTO_STYLES[k] \in ok THEN <<Render(image, AUTO_STYLES[k])>> ELSE << >>)
         \o RendersOf(image, ok, k + 1)

\* newImages: the original followed by the renders.
NewImages(image, ok) == <<Original(image)>> \o RendersOf(image, ok, 1)

\* handleGenerateRenders when Promise.all resolves: ok is the set of styles
\* whose call returned an image.
GenerationReturns ==
  /\ \E g \in gens, ok \in SUBSET {"modern", "traditional"} :
       /\ g.phase = "rendering"
       /\ LET newImages == NewImages(g.image, ok)
          IN  IF Len(newImages) > 1
              THEN /\ galleryImages' = newImages
                   /\ currentIndex' = 1
                   /\ viewState' = "render"
                   /\ gens' = (gens \ {g}) \cup
                                {[g EXCEPT !.phase = "saving", !.ok = ok]}
                   /\ UNCHANGED renderError
              ELSE /\ renderError' = "No images were generated successfully"
                   /\ viewState' = "upload"
                   /\ gens' = gens \ {g}
                   /\ UNCHANGED <<galleryImages, currentIndex>>
  /\ UNCHANGED <<imageData, detectedRooms, selectedRoom, isDetectingRooms,
                 isInpainting, roomDetectionError, detectionMethod, runs,
                 inpaints, alerts, nextRun, nextGen, nextInpaint, lastRun,
                 roomsRun, dvars, ivars, rvars, pvars, xvars>>
  /\ PanelFollows

\* handleGenerateRenders when saveProjectLocally settles: a rejection is
\* caught by the same catch as a failed generation.
SaveReturns ==
  /\ \E g \in gens, saved \in BOOLEAN :
       /\ g.phase = "saving"
       /\ gens' = gens \ {g}
       /\ IF saved
          THEN UNCHANGED <<renderError, viewState>>
          ELSE /\ renderError' = "save failed"
               /\ viewState' = "upload"
  /\ UNCHANGED <<imageData, galleryImages, currentIndex, detectedRooms,
                 selectedRoom, isDetectingRooms, isInpainting,
                 roomDetectionError, detectionMethod, runs, inpaints, alerts,
                 nextRun, nextGen, nextInpaint, lastRun, roomsRun, dvars, ivars, rvars, pvars, xvars>>
  /\ PanelFollows

\* handleEnterEditMode, from Edit (shown on a render).
EnterEditMode ==
  /\ viewState = "render"
  /\ CurrentImage # << >>
  /\ CurrentImage[1].type = "render"
  /\ CurrentImage[1].type # "original"
  /\ viewState' = "editing"
  /\ selectedRoom' = << >>
  /\ UNCHANGED <<imageData, galleryImages, currentIndex, detectedRooms,
                 isDetectingRooms, isInpainting, roomDetectionError,
                 detectionMethod, renderError, runs, gens, inpaints, alerts,
                 nextRun, nextGen, nextInpaint, lastRun, roomsRun, dvars, ivars, rvars, pvars, xvars>>
  /\ PanelFollows

\* handleExitEditMode, from Back on the editing view.
ExitEditMode ==
  /\ viewState = "editing"
  /\ viewState' = "render"
  /\ selectedRoom' = << >>
  /\ UNCHANGED <<imageData, galleryImages, currentIndex, detectedRooms,
                 isDetectingRooms, isInpainting, roomDetectionError,
                 detectionMethod, renderError, runs, gens, inpaints, alerts,
                 nextRun, nextGen, nextInpaint, lastRun, roomsRun, dvars, ivars, rvars, pvars, xvars>>
  /\ PanelFollows

\* A RoomOverlay is shown: on the planning view, or on the editing view.
OverlayShown ==
  \/ /\ viewState = "planning" /\ imageData # Null
     /\ ~isDetectingRooms /\ Len(detectedRooms) > 0
  \/ /\ viewState = "editing" /\ CurrentImage # << >>
     /\ ~isDetectingRooms

\* handleRoomClick, from a room of the overlay.
RoomClick ==
  /\ OverlayShown
  /\ \E k \in 1..Len(detectedRooms) :
       /\ selectedRoom # <<detectedRooms[k]>>
       /\ selectedRoom' = <<detectedRooms[k]>>
  /\ UNCHANGED <<viewState, imageData, galleryImages, currentIndex,
                 detectedRooms, isDetectingRooms, isInpainting,
                 roomDetectionError, detectionMethod, renderError, runs, gens,
                 inpaints, alerts, nextRun, nextGen, nextInpaint, lastRun,
                 roomsRun, dvars, ivars, rvars, pvars, xvars>>
  /\ PanelFollows

\* onClose={() => setSelectedRoom(null)}, from the panel's close button.
PanelClose ==
  /\ PanelMounted
  /\ selectedRoom' = << >>
  /\ UNCHANGED <<viewState, imageData, galleryImages, currentIndex,
                 detectedRooms, isDetectingRooms, isInpainting,
                 roomDetectionError, detectionMethod, renderError, runs, gens,
                 inpaints, alerts, nextRun, nextGen, nextInpaint, lastRun,
                 roomsRun, dvars, ivars, rvars, pvars, xvars>>
  /\ PanelFollows

\* setPrompt, from the textarea or a preset.
PanelPrompt ==
  /\ PanelMounted
  /\ \E p \in Prompts : p # panelPrompt /\ panelPrompt' = p
  /\ UNCHANGED <<signals, runs, gens, inpaints, alerts, nextRun,
                 nextGen, nextInpaint, lastRun, roomsRun, dvars, ivars, rvars, pvars, xvars>>

\* handleSubmit and handleInpaint up to its await, from Apply Changes: the
\* flag is set and the request leaves with the displayed entry's data and
\* the selected room (its prompt and strength are followed in SpecInpaint).
Submit ==
  /\ PanelMounted
  /\ SubmitEnabled(panelPrompt, isInpainting)
  /\ Trim(panelPrompt) # << >>
  /\ selectedRoom # << >> /\ CurrentImage # << >>
  /\ MayRequest
  /\ isInpainting' = TRUE
  /\ inpaints' = inpaints \cup
       {[id |-> nextInpaint, imageUrl |-> CurrentImage[1].data,
         roomId |-> selectedRoom[1].id]}
  /\ nextInpaint' = nextInpaint + 1
  /\ UNCHANGED <<viewState, imageData, galleryImages, currentIndex,
                 detectedRooms, selectedRoom, isDetectingRooms,
                 roomDetectionError, detectionMethod, renderError, runs, gens,
                 panelPrompt, alerts, nextRun, nextGen, lastRun,
                 roomsRun, dvars, ivars, rvars, pvars, xvars>>

\* handleInpaint from its await on: the result is written at the index
\* current now and the panel is closed, or the alert is shown; the flag is
\* cleared.
InpaintReturns ==
  /\ \E r \in inpaints, outcome \in InpaintOutcomes :
       /\ inpaints' = inpaints \ {r}
       /\ galleryImages' =
            GalleryAfterInpaint(galleryImages, currentIndex, outcome, r.id)
       /\ IF outcome = "ok"
          THEN selectedRoom' = << >> /\ UNCHANGED alerts
          ELSE alerts' = alerts + 1 /\ UNCHANGED selectedRoom
  /\ isInpainting' = FALSE
  /\ UNCHANGED <<viewState, imageData, currentIndex, detectedRooms,
                 isDetectingRooms, roomDetectionError, detectionMethod,
                 renderError, runs, gens, nextRun, nextGen, nextInpaint,
                 lastRun, roomsRun, dvars, ivars, rvars, pvars, xvars>>
  /\ PanelFollows

\* nextImage, from the arrow or a swipe on the render view.
NextImage ==
  /\ viewState = "render"
  /\ currentIndex < Len(galleryImages) - 1
  /\ currentIndex' = currentIndex + 1
  /\ UNCHANGED <<viewState, imageData, galleryImages, detectedRooms,
                 selectedRoom, isDetectingRooms, isInpainting,
                 roomDetectionError, detectionMethod, renderError, runs, gens,
                 inpaints, panelPrompt, alerts, nextRun, nextGen,
                 nextInpaint, lastRun, roomsRun, dvars, ivars, rvars, pvars, xvars>>

\* prevImage, from the arrow or a swipe on the render view.
PrevImage ==
  /\ viewState = "render"
  /\ currentIndex > 0
  /\ currentIndex' = currentIndex - 1
  /\ UNCHANGED <<viewState, imageData, galleryImages, detectedRooms,
                 selectedRoom, isDetectingRooms, isInpainting,
                 roomDetectionError, detectionMethod, renderError, runs, gens,
                 inpaints, panelPrompt, alerts, nextRun, nextGen,
                 nextInpaint, lastRun, roomsRun, dvars, ivars, rvars, pvars, xvars>>

\* goToImage, from a dot of the render view.
GoToImage ==
  /\ viewState = "render"
  /\ \E index \in 0..(Len(galleryImages) - 1) :
       index # currentIndex /\ currentIndex' = index
  /\ UNCHANGED <<viewState, imageData, galleryImages, detectedRooms,
                 selectedRoom, isDetectingRooms, isInpainting,
                 roomDetectionError, detectionMethod, renderError, runs, gens,
                 inpaints, panelPrompt, alerts, nextRun, nextGen,
                 nextInpaint, lastRun, roomsRun, dvars, ivars, rvars, pvars, xvars>>

Next ==
  \/ FileSelect
  \/ RetryDetection
  \/ DetectionReturns
  \/ NewRender
  \/ StartGeneration
  \/ GenerationReturns
  \/ SaveReturns
  \/ EnterEditMode
  \/ ExitEditMode
  \/ RoomClick
  \/ PanelClose
  \/ PanelPrompt
  \/ Submit
  \/ InpaintReturns
  \/ NextImage
  \/ PrevImage
  \/ GoToImage

\* ====================================== inpaintRoom and the inpaint handler
\* const maxAttempts = 60
maxAttempts == 60

\* The strength of a call, in hundredths; << >> when it is not given.
StrengthSet == {<< >>, <<20>>, <<30>>, <<80>>, <<100>>, <<150>>}

\* strength = 0.8 (the default of inpaintRoom's parameter and of the
\* handler's destructuring)
StrengthOrDefault(strength) ==
  IF strength = << >> THEN <<DefaultStrength>> ELSE strength

\* A request to the inpaint endpoint: the method, whether the key is
\* configured, whether imageUrl, roomId and maskUrl are truthy, the prompt,
\* the strength.  (bbox and seed are sent too; the handler reads neither
\* bbox nor the room's polygon.)
InpaintRequests ==
  [method : {"POST", "GET"}, hasKey : BOOLEAN, imageUrl : BOOLEAN,
   roomId : BOOLEAN, maskUrl : BOOLEAN, prompt : Prompts,
   strength : StrengthSet]

NoRequest ==
  [method |-> "POST", hasKey |-> FALSE, imageUrl |-> FALSE, roomId |-> FALSE,
   maskUrl |-> FALSE, prompt |-> << >>, strength |-> << >>]

\* What the panel hands to handleSubmit: the displayed entry's data, the
\* selected room (every handler emits its rooms with maskUrl: null), the
\* prompt signal and the slider's value.
PanelRequests ==
  {r \in InpaintRequests :
     /\ r.method = "POST" /\ r.imageUrl /\ r.roomId /\ ~r.maskUrl
     /\ r.strength \in {<<v>> : v \in SliderValues}}

\* result.status of a prediction
PredictionStatuses == {"starting", "processing", "succeeded", "failed"}

\* The parts of an image as an edit sees them: inside the edited room's
\* padded crop rectangle, and the rest.
Regions == {"crop", "outside"}

\* An image compared with the one submitted, part by part.
Unchanged == [g \in Regions |-> "same"]

\* input.mask: the room's mask, or the image itself as a placeholder.
MaskOf(req) == IF req.maskUrl THEN "maskUrl" ELSE "imageUrl"

\* What the provider's inpainting may return for the submitted image: it
\* repaints where the mask is white; under a room mask the rest is kept,
\* under a mask that is the image itself any part may be repainted.
ProviderOutputs(mask) ==
  IF mask = "maskUrl"
  THEN {out \in [Regions -> {"same", "repainted"}] : out["outside"] = "same"}
  ELSE [Regions -> {"same", "repainted"}]

InpaintResponse(status, error) ==
  [status |-> status, error |-> error, fullImageUrl |-> Unchanged]

\* res.status(200).json({cropUrl: outputUrl, fullImageUrl: outputUrl, roomId})
InpaintResult(outputUrl) ==
  [status |-> 200, error |-> "", fullImageUrl |-> outputUrl]

\* Apply Changes is clicked in the panel, or inpaintRoom is called with its
\* arguments, or a request from elsewhere is at the handler.
InpaintInit ==
  /\ iReq \in InpaintRequests
  /\ iPc \in {"panel", "client", "start"}
  /\ iPc = "panel" => iReq \in PanelRequests
  /\ iPc = "client" => iReq.method = "POST"
  /\ iFetches = 0
  /\ iCalls = << >>
  /\ iStatus = "none"
  /\ iAttempts = 0
  /\ iResps = << >>

\* No call of inpaintRoom and no request.
InpaintOff ==
  /\ iReq = NoRequest
  /\ iPc = "off"
  /\ iFetches = 0
  /\ iCalls = << >>
  /\ iStatus = "none"
  /\ iAttempts = 0
  /\ iResps = << >>

\* No request to a detection handler.
DetectOff ==
  /\ dHandler = "v1"
  /\ dPc = "off"
  /\ dAnswer = NoAnswer
  /\ dPass1 = NoAnswer
  /\ dPrompt = << >>
  /\ dResps = << >>
  /\ tI = 0
  /\ tOut = {}
  /\ tAns = << >>
  /\ tRooms = << >>

\* return res.status(...).json(...)
InpaintRespond(r) ==
  /\ iResps' = Append(iResps, r)
  /\ iPc' = "done"

\* handleSubmit with a prompt that trims to nothing: onInpaint is not called.
HandleSubmitBlank ==
  /\ iPc = "panel"
  /\ Trim(iReq.prompt) = << >>
  /\ iPc' = "done"
  /\ UNCHANGED <<iReq, iFetches, iCalls, iStatus, iAttempts, iResps, dvars, avars, rvars, pvars, xvars>>

\* handleSubmit: props.onInpaint(prompt(), strength()), which calls
\* inpaintRoom with them.
HandleSubmit ==
  /\ iPc = "panel"
  /\ Trim(iReq.prompt) # << >>
  /\ iPc' = "client"
  /\ UNCHANGED <<iReq, iFetches, iCalls, iStatus, iAttempts, iResps, dvars, avars, rvars, pvars, xvars>>

\* inpaintRoom: fetch(INPAINT_URL, {method: 'POST', body: ...}).
InpaintRoomFetch ==
  /\ iPc = "client"
  /\ iFetches' = iFetches + 1
  /\ iReq' = [iReq EXCEPT !.strength = StrengthOrDefault(iReq.strength)]
  /\ iPc' = "start"
  /\ UNCHANGED <<iCalls, iStatus, iAttempts, iResps, dvars, avars, rvars, pvars, xvars>>

\* if (req.method !== 'POST') return 405
InpaintRejectMethod ==
  /\ iPc = "start"
  /\ iReq.method # "POST"
  /\ InpaintRespond(InpaintResponse(405, "Method not allowed"))
  /\ UNCHANGED <<iReq, iFetches, iCalls, iStatus, iAttempts, dvars, avars, rvars, pvars, xvars>>

\* if (!apiKey) return 500
InpaintRejectNoKey ==
  /\ iPc = "start"
  /\ iReq.method = "POST"
  /\ ~iReq.hasKey
  /\ InpaintRespond(InpaintResponse(500, "Replicate API key not configured"))
  /\ UNCHANGED <<iReq, iFetches, iCalls, iStatus, iAttempts, dvars, avars, rvars, pvars, xvars>>

\* if (!imageUrl || !roomId || !prompt) return 400
InpaintRejectMissing ==
  /\ iPc = "start"
  /\ iReq.method = "POST" /\ iReq.hasKey
  /\ ~iReq.imageUrl \/ ~iReq.roomId \/ iReq.prompt = << >>
  /\ InpaintRespond(InpaintResponse(400, "Missing required fields: imageUrl, roomId, prompt"))
  /\ UNCHANGED <<iReq, iFetches, iCalls, iStatus, iAttempts, dvars, avars, rvars, pvars, xvars>>

\* fetch(REPLICATE_API_URL, ...): the prediction is requested with the
\* strength of the body.
InpaintCreate ==
  /\ iPc = "start"
  /\ iReq.method = "POST" /\ iReq.hasKey
  /\ iReq.imageUrl /\ iReq.roomId /\ iReq.prompt # << >>
  /\ iCalls' = Append(iCalls, [strength |-> StrengthOrDefault(iReq.strength)[1],
                               mask |-> MaskOf(iReq)])
  /\ iPc' = "create"
  /\ UNCHANGED <<iReq, iFetches, iStatus, iAttempts, iResps, dvars, avars, rvars, pvars, xvars>>

\* The provider call rejects or answers with a non-success status: the throw
\* is caught and answered 500.
InpaintCreateFails ==
  /\ iPc = "create"
  /\ \E error \in {"fetch failed", "Replicate API error"} :
       InpaintRespond(InpaintResponse(500, error))
  /\ UNCHANGED <<iReq, iFetches, iCalls, iStatus, iAttempts, dvars, avars, rvars, pvars, xvars>>

\* const prediction = await response.json(); let result = prediction;
\* let attempts = 0
InpaintCreated ==
  /\ iPc = "create"
  /\ \E status \in PredictionStatuses : iStatus' = status
  /\ iAttempts' = 0
  /\ iPc' = "poll"
  /\ UNCHANGED <<iReq, iFetches, iCalls, iResps, dvars, avars, rvars, pvars, xvars>>

\* The loop condition with attempts <= maxAttempts.
InpaintPollingPastLimit ==
  iStatus # "succeeded" /\ iStatus # "failed" /\ iAttempts <= maxAttempts

\* while (result.status !== 'succeeded' && result.status !== 'failed' &&
\*        attempts < maxAttempts)
InpaintPolling ==
  iStatus # "succeeded" /\ iStatus # "failed" /\ iAttempts < maxAttempts

\* One turn of the loop: the status is fetched, attempts++.
InpaintPoll ==
  /\ iPc = "poll"
  /\ InpaintPolling
  /\ \E status \in PredictionStatuses : iStatus' = status
  /\ iAttempts' = iAttempts + 1
  /\ UNCHANGED <<iPc, iReq, iFetches, iCalls, iResps, dvars, avars, rvars, pvars, xvars>>

\* The status fetch rejects: the throw is caught and answered 500.
InpaintPollFails ==
  /\ iPc = "poll"
  /\ InpaintPolling
  /\ InpaintRespond(InpaintResponse(500, "fetch failed"))
  /\ UNCHANGED <<iReq, iFetches, iCalls, iStatus, iAttempts, dvars, avars, rvars, pvars, xvars>>

\* After the loop: failed, timed out, or the output is returned.
InpaintFinish ==
  /\ iPc = "poll"
  /\ ~InpaintPolling
  /\ IF iStatus = "failed"
     THEN InpaintRespond(InpaintResponse(500, "Inpainting failed"))
     ELSE IF iStatus # "succeeded"
     THEN InpaintRespond(InpaintResponse(500, "Inpainting timed out"))
     ELSE \E output \in ProviderOutputs(iCalls[Len(iCalls)].mask) :
            InpaintRespond(InpaintResult(output))
  /\ UNCHANGED <<iReq, iFetches, iCalls, iStatus, iAttempts, dvars, avars, rvars, pvars, xvars>>

InpaintNext ==
  \/ HandleSubmitBlank
  \/ HandleSubmit
  \/ InpaintRoomFetch
  \/ InpaintRejectMethod
  \/ InpaintRejectNoKey
  \/ InpaintRejectMissing
  \/ InpaintCreate
  \/ InpaintCreateFails
  \/ InpaintCreated
  \/ InpaintPoll
  \/ InpaintPollFails
  \/ InpaintFinish

\* ------------------------------------------------------- the render app
StylePresets == {"modern", "traditional"}

\* A LocalProject: the source image and the render stored with it.
Project(originalFileData, renderData, style) ==
  [originalFileData |-> originalFileData, renderData |-> renderData,
   style |-> style]

\* What local storage may hold from earlier sessions: a project with its
\* render, and one stored without render or source.
StoredProjects ==
  {Project(<<"B">>, <<Rendered("B", "traditional")>>, "traditional"),
   Project(<< >>, << >>, "modern")}

\* The outcomes of generateIsometricRender(img, {style}): it throws, or
\* returns {image: generatedImage} with generatedImage null when no part of
\* the response carried an image.
GenerationResult(threw, image, message) ==
  [threw |-> threw, image |-> image, message |-> message]

GenerationResults(img, style) ==
  {GenerationResult(TRUE, << >>, "OpenRouter API error"),
   GenerationResult(FALSE, << >>, ""),
   GenerationResult(FALSE, <<Rendered(img, style)>>, "")}

\* The interval of a job left running.
IntervalLeftRunning(j) == j

\* clearInterval(progressInterval)
ClearInterval(j) == [j EXCEPT !.interval = FALSE]

\* if (result.image) without the test of the image.
HasImageUntested(result) == ~result.threw

\* The call returned and if (result.image) holds.
HasImage(result) == ~result.threw /\ result.image # << >>

\* The signals of the room-editing app that the render app does not have.
otherSignals == <<galleryImages, currentIndex, detectedRooms, selectedRoom,
                  isDetectingRooms, isInpainting, roomDetectionError,
                  detectionMethod, runs, gens, inpaints, panelPrompt, alerts,
                  nextRun, nextGen, nextInpaint, lastRun, roomsRun>>

\* The state after App() is constructed, over the storage of earlier
\* sessions.
RenderInit ==
  /\ renderState = "idle"
  /\ renderResult = << >>
  /\ selectedStyle = "modern"
  /\ showStylePicker = FALSE
  /\ showHistory = FALSE
  /\ currentProject = << >>
  /\ jobs = {}
  /\ nextJob = 1
  /\ projects \in SUBSET StoredProjects

\* The render app is not running.
RenderOff ==
  /\ renderState = "idle"
  /\ renderResult = << >>
  /\ selectedStyle = "modern"
  /\ showStylePicker = FALSE
  /\ showHistory = FALSE
  /\ currentProject = << >>
  /\ jobs = {}
  /\ nextJob = 1
  /\ projects = {}

\* The parser is not called.
ParseOff ==
  /\ pPc = "off"
  /\ pFrags = << >>
  /\ pPoints = << >>

\* handleGenerateRender(img) up to its await: the flags are set and the call
\* of generateIsometricRender leaves with the selected style.
HandleGenerateRender(img) ==
  /\ viewState' = "generating"
  /\ renderState' = "generating"
  /\ renderError' = Null
  /\ jobs' = jobs \cup {[id |-> nextJob, image |-> img, style |-> selectedStyle,
                         phase |-> "rendering", interval |-> TRUE,
                         project |-> << >>]}
  /\ nextJob' = nextJob + 1

\* handleFileSelect, from the upload page.
HandleFileSelect ==
  /\ viewState = "upload"
  /\ nextJob <= MaxJobs
  /\ \E dataUrl \in Images :
       /\ imageData' = dataUrl
       /\ HandleGenerateRender(dataUrl)
  /\ UNCHANGED <<renderResult, selectedStyle, showStylePicker, showHistory,
                 currentProject, projects, otherSignals, dvars, ivars, pvars, xvars>>

\* handleRegenerate, from the render page's button.
HandleRegenerate ==
  /\ viewState = "render"
  /\ imageData # Null => nextJob <= MaxJobs
  /\ IF imageData # Null
     THEN HandleGenerateRender(imageData)
     ELSE UNCHANGED <<viewState, renderState, renderError, jobs, nextJob>>
  /\ UNCHANGED <<imageData, renderResult, selectedStyle, showStylePicker,
                 showHistory, currentProject, projects, otherSignals, dvars,
                 ivars, pvars, xvars>>

\* handleGenerateRender from its await on: the image is stored and shown and
\* the project is handed to storage, or the catch shows the error.
GenerateRenderReturns ==
  /\ \E j \in jobs : \E result \in GenerationResults(j.image, j.style) :
       /\ j.phase = "rendering"
       /\ IF HasImage(result)
          THEN LET project == Project(<<j.image>>, result.image, selectedStyle)
               IN  /\ renderResult' = result.image
                   /\ renderState' = "done"
                   /\ viewState' = "render"
                   /\ currentProject' = <<project>>
                   /\ jobs' = (jobs \ {j}) \cup
                        {[ClearInterval(j) EXCEPT !.phase = "saving",
                                             !.project = <<project>>]}
                   /\ UNCHANGED renderError
          ELSE /\ renderError' = (IF result.threw THEN result.message
                                  ELSE "No image returned from AI")
               /\ renderState' = "error"
               /\ viewState' = "upload"
               /\ jobs' = jobs \ {j}
               /\ UNCHANGED <<renderResult, currentProject>>
  /\ UNCHANGED <<imageData, selectedStyle, showStylePicker, showHistory,
                 nextJob, projects, otherSignals, dvars, ivars, pvars, xvars>>

\* handleGenerateRender when saveProjectLocally settles: a rejection is
\* caught by the same catch.
SaveProjectReturns ==
  /\ \E j \in jobs, saved \in BOOLEAN :
       /\ j.phase = "saving"
       /\ jobs' = jobs \ {j}
       /\ IF saved
          THEN /\ projects' = projects \cup {j.project[1]}
               /\ UNCHANGED <<renderError, renderState, viewState>>
          ELSE /\ renderError' = "save failed"
               /\ renderState' = "error"
               /\ viewState' = "upload"
               /\ UNCHANGED projects
  /\ UNCHANGED <<imageData, renderResult, selectedStyle, showStylePicker,
                 showHistory, currentProject, nextJob, otherSignals, dvars,
                 ivars, pvars, xvars>>

\* handleNewRender, from New on the bottom bar or the render page.
HandleNewRender ==
  /\ viewState = "render"
  /\ viewState' = "upload"
  /\ imageData' = Null
  /\ renderResult' = << >>
  /\ renderState' = "idle"
  /\ currentProject' = << >>
  /\ showStylePicker' = FALSE
  /\ showHistory' = FALSE
  /\ UNCHANGED <<renderError, selectedStyle, jobs, nextJob, projects,
                 otherSignals, dvars, ivars, pvars, xvars>>

\* The bottom bar with its panels is shown on the upload and render pages.
BottomBarShown == viewState \in {"upload", "render"}

\* The style and history buttons of the bottom bar, and the panels' close
\* buttons.
TogglePanel ==
  /\ BottomBarShown
  /\ \/ showStylePicker' = ~showStylePicker /\ showHistory' = FALSE
     \/ showHistory' = ~showHistory /\ showStylePicker' = FALSE
  /\ UNCHANGED <<viewState, imageData, renderError, renderState, renderResult,
                 selectedStyle, currentProject, jobs, nextJob, projects,
                 otherSignals, dvars, ivars, pvars, xvars>>

\* A style of the style picker is clicked: it is selected, the picker closes
\* and, on the render page with a source image, the render is regenerated.
SelectStyle ==
  /\ BottomBarShown /\ showStylePicker
  /\ (viewState = "render" /\ imageData # Null) => nextJob <= MaxJobs
  /\ \E style \in StylePresets : selectedStyle' = style
  /\ showStylePicker' = FALSE
  /\ IF viewState = "render" /\ imageData # Null
     THEN /\ viewState' = "generating"
          /\ renderState' = "generating"
          /\ renderError' = Null
          /\ jobs' = jobs \cup {[id |-> nextJob, image |-> imageData,
                                 style |-> selectedStyle', phase |-> "rendering",
                                 interval |-> TRUE,
                                 project |-> << >>]}
          /\ nextJob' = nextJob + 1
     ELSE UNCHANGED <<viewState, renderState, renderError, jobs, nextJob>>
  /\ UNCHANGED <<imageData, renderResult, showHistory, currentProject,
                 projects, otherSignals, dvars, ivars, pvars, xvars>>

\* handleLoadProject, from a project of the history panel.
HandleLoadProject ==
  /\ BottomBarShown /\ showHistory
  /\ \E project \in projects :
       /\ imageData' = (IF project.originalFileData # << >>
                        THEN project.originalFileData[1] ELSE imageData)
       /\ selectedStyle' = project.style
       /\ IF project.renderData # << >>
          THEN /\ renderResult' = project.renderData
               /\ renderState' = "done"
               /\ viewState' = "render"
          ELSE /\ viewState' = "upload"
               /\ UNCHANGED <<renderResult, renderState>>
       /\ currentProject' = <<project>>
  /\ showHistory' = FALSE
  /\ UNCHANGED <<renderError, showStylePicker, jobs, nextJob, projects,
                 otherSignals, dvars, ivars, pvars, xvars>>

RenderNext ==
  \/ HandleFileSelect
  \/ HandleRegenerate
  \/ GenerateRenderReturns
  \/ SaveProjectReturns
  \/ HandleNewRender
  \/ TogglePanel
  \/ SelectStyle
  \/ HandleLoadProject

\* ---------------------------------------------- the annotate-and-render app
\* The App with the pages upload, preview, annotate and render. It has the
\* signals of the render app under the same names; its handlers are named
\* after their own with Annotate in front.

\* handleFileSelect, from the upload page.
AnnotateFileSelect ==
  /\ viewState = "upload"
  /\ \E dataUrl \in Images : imageData' = dataUrl
  /\ viewState' = "preview"
  /\ UNCHANGED <<renderError, rvars, otherSignals, dvars, ivars, pvars, xvars>>

\* handleContinueToAnnotate, from the preview page.
AnnotateContinue ==
  /\ viewState = "preview"
  /\ viewState' = "annotate"
  /\ UNCHANGED <<imageData, renderError, rvars, otherSignals, dvars, ivars,
                 pvars, xvars>>

\* The generate button is disabled while renderState() === 'generating'.
GenerateEnabled == renderState # "generating"

\* handleGenerateRender up to its await, from the generate button of the
\* annotate page: without an image it returns at once.
AnnotateGenerateRender ==
  /\ viewState = "annotate"
  /\ GenerateEnabled
  /\ imageData # Null => nextJob <= MaxJobs
  /\ IF imageData = Null
     THEN UNCHANGED <<renderState, renderError, jobs, nextJob>>
     ELSE /\ renderState' = "generating"
          /\ renderError' = Null
          /\ jobs' = jobs \cup {[id |-> nextJob, image |-> imageData,
                                 style |-> selectedStyle, phase |-> "rendering",
                                 interval |-> TRUE,
                                 project |-> << >>]}
          /\ nextJob' = nextJob + 1
  /\ UNCHANGED <<viewState, imageData, renderResult, selectedStyle,
                 showStylePicker, showHistory, currentProject, projects,
                 otherSignals, dvars, ivars, pvars, xvars>>

\* handleGenerateRender from its await on: the image is stored and shown and
\* the project is handed to storage, or the catch sets the error.
AnnotateGenerateReturns ==
  /\ \E j \in jobs : \E result \in GenerationResults(j.image, j.style) :
       /\ j.phase = "rendering"
       /\ IF HasImage(result)
          THEN LET project == Project(<<j.image>>, result.image, selectedStyle)
               IN  /\ renderResult' = result.image
                   /\ renderState' = "done"
                   /\ viewState' = "render"
                   /\ currentProject' = <<project>>
                   /\ jobs' = (jobs \ {j}) \cup
                        {[ClearInterval(j) EXCEPT !.phase = "saving",
                                             !.project = <<project>>]}
                   /\ UNCHANGED renderError
          ELSE /\ renderError' = (IF result.threw THEN result.message
                                  ELSE "No image returned from AI")
               /\ renderState' = "error"
               /\ jobs' = jobs \ {j}
               /\ UNCHANGED <<viewState, renderResult, currentProject>>
  /\ UNCHANGED <<imageData, selectedStyle, showStylePicker, showHistory,
                 nextJob, projects, otherSignals, dvars, ivars, pvars, xvars>>

\* handleGenerateRender when saveProjectLocally settles: a rejection is
\* caught by the same catch.
AnnotateSaveReturns ==
  /\ \E j \in jobs, saved \in BOOLEAN :
       /\ j.phase = "saving"
       /\ jobs' = jobs \ {j}
       /\ IF saved
          THEN /\ projects' = projects \cup {j.project[1]}
               /\ UNCHANGED <<renderError, renderState>>
          ELSE /\ renderError' = "save failed"
               /\ renderState' = "error"
               /\ UNCHANGED projects
  /\ UNCHANGED <<viewState, imageData, renderResult, selectedStyle,
                 showStylePicker, showHistory, currentProject, nextJob,
                 otherSignals, dvars, ivars, pvars, xvars>>

\* handleBack, from the header of every page but upload.
AnnotateBack ==
  /\ viewState # "upload"
  /\ viewState' = CASE viewState = "preview"  -> "upload"
                    [] viewState = "annotate" -> "preview"
                    [] viewState = "render"   -> "annotate"
                    [] OTHER                  -> viewState
  /\ imageData' = (IF viewState = "preview" THEN Null ELSE imageData)
  /\ UNCHANGED <<renderError, rvars, otherSignals, dvars, ivars, pvars, xvars>>

\* handleNewRender, from the render page.
AnnotateNewRender ==
  /\ viewState = "render"
  /\ viewState' = "upload"
  /\ imageData' = Null
  /\ renderResult' = << >>
  /\ renderState' = "idle"
  /\ currentProject' = << >>
  /\ UNCHANGED <<renderError, selectedStyle, showStylePicker, showHistory,
                 jobs, nextJob, projects, otherSignals, dvars, ivars, pvars,
                 xvars>>

\* handleLoadProject, from the ProjectHistory of the annotate and render
\* pages.
AnnotateLoadProject ==
  /\ viewState \in {"annotate", "render"}
  /\ \E project \in projects :
       /\ imageData' = (IF project.originalFileData # << >>
                        THEN project.originalFileData[1] ELSE imageData)
       /\ selectedStyle' = project.style
       /\ IF project.renderData # << >>
          THEN /\ renderResult' = project.renderData
               /\ renderState' = "done"
               /\ viewState' = "render"
          ELSE /\ viewState' = "preview"
               /\ UNCHANGED <<renderResult, renderState>>
       /\ currentProject' = <<project>>
  /\ UNCHANGED <<renderError, showStylePicker, showHistory, jobs, nextJob,
                 projects, otherSignals, dvars, ivars, pvars, xvars>>

\* handleRegenerate, from the render page.
AnnotateRegenerate ==
  /\ viewState = "render"
  /\ viewState' = "annotate"
  /\ renderResult' = << >>
  /\ renderState' = "idle"
  /\ UNCHANGED <<imageData, renderError, selectedStyle, showStylePicker,
                 showHistory, currentProject, jobs, nextJob, projects,
                 otherSignals, dvars, ivars, pvars, xvars>>

\* The StyleSelector of the annotate page.
AnnotateSelectStyle ==
  /\ viewState = "annotate"
  /\ \E style \in StylePresets : selectedStyle' = style
  /\ UNCHANGED <<viewState, imageData, renderError, renderState, renderResult,
                 showStylePicker, showHistory, currentProject, jobs, nextJob,
                 projects, otherSignals, dvars, ivars, pvars, xvars>>

AnnotateNext ==
  \/ AnnotateFileSelect
  \/ AnnotateContinue
  \/ AnnotateGenerateRender
  \/ AnnotateGenerateReturns
  \/ AnnotateSaveReturns
  \/ AnnotateBack
  \/ AnnotateNewRender
  \/ AnnotateLoadProject
  \/ AnnotateRegenerate
  \/ AnnotateSelectStyle

\* ------------------------------------------------------- the path parser
\* "M 15,20 L 35,20 L 35,40 L 25,40 L 25,55 L 15,55 Z", in its pieces.
ExampleFrags ==
  <<<<"M", " ", "1", "5", ",", "2", "0">>,
    <<" ", "L", " ", "3", "5", ",", "2", "0">>,
    <<" ", "L", " ", "3", "5", ",", "4", "0">>,
    <<" ", "L", " ", "2", "5", ",", "4", "0">>,
    <<" ", "L", " ", "2", "5", ",", "5", "5">>,
    <<" ", "L", " ", "1", "5", ",", "5", "5">>,
    <<" ", "Z">>>>

\* The paths parseSvgPath is called with, as their pieces.
ParseInputs == SeqsUpTo(FragSet, MaxSegs) \cup {ExampleFrags}

\* parseSvgPath is called with a path.
ParseInit ==
  /\ pPc = "call"
  /\ pFrags \in ParseInputs
  /\ pPoints = << >>

\* parseSvgPath returns its points.
ParseReturns ==
  /\ pPc = "call"
  /\ pPoints' = parseSvgPath(Concat(pFrags))
  /\ pPc' = "done"
  /\ UNCHANGED <<pFrags, dvars, avars, ivars, rvars, xvars>>

ParseNext == ParseReturns

\* ------------------------------------------- the generation service's reply
\* The parts of an array content: a typed part carries what its type names
\* (an image_url or image part its image_url field, which may lack its url; a
\* text part its text), an untyped part carries an image_url, an inline_data
\* or a text, and a part may be a bare string.
ContentPart(type, image_url, inline_data) ==
  [type |-> type, image_url |-> image_url, inline_data |-> inline_data]

ContentParts ==
  {ContentPart(t, u, FALSE) : t \in {"image_url", "image"},
                              u \in {"absent", "url", "nourl", "string"}}
  \cup {ContentPart("text", "absent", FALSE), ContentPart("string", "absent", FALSE)}
  \cup {ContentPart("none", u, FALSE) : u \in {"absent", "url", "nourl", "string"}}
  \cup {ContentPart("none", "absent", TRUE)}

\* message.content: absent, a string (with or without a base64 data URI in
\* it) or an array of parts.
MessageContent(kind, dataUri, parts) ==
  [kind |-> kind, dataUri |-> dataUri, parts |-> parts]

MessageContents ==
  {MessageContent("null", FALSE, << >>)}
  \cup {MessageContent("string", b, << >>) : b \in BOOLEAN}
  \cup {MessageContent("array", FALSE, parts) : parts \in SeqsUpTo(ContentParts, MaxParts)}

\* The entries of message.images: image_url entries, with or without url.
ImageEntries == {[type |-> "image_url", url |-> b] : b \in BOOLEAN}

\* choices[0].message.
Messages ==
  [content : MessageContents, images : SeqsUpTo(ImageEntries, MaxParts),
   image : BOOLEAN]

\* The replies of the generation service: a non-success status, no choices,
\* or a message.
ServiceResponses ==
  {[ok |-> FALSE, choices |-> << >>], [ok |-> TRUE, choices |-> << >>]}
  \cup {[ok |-> TRUE, choices |-> <<m>>] : m \in Messages}

\* One round of the loop over the parts: generatedImage after the part.
FromPart(part, generatedImage) ==
  IF part.type = "image_url" /\ part.image_url = "url" THEN <<"part.image_url.url">>
  ELSE IF part.type = "image" /\ part.image_url = "url" THEN <<"part.image_url.url">>
  ELSE IF part.image_url # "absent"
       THEN (IF part.image_url = "url" THEN <<"part.image_url.url">>
             ELSE <<"part.image_url">>)
  ELSE IF part.type = "text" THEN generatedImage
  ELSE IF part.inline_data THEN <<"data:inline_data">>
  ELSE generatedImage

RECURSIVE FromParts(_, _)
FromParts(parts, generatedImage) ==
  IF parts = << >> THEN generatedImage
  ELSE FromParts(Tail(parts), FromPart(Head(parts), generatedImage))

\* generatedImage after the content was read.
FromContent(responseContent) ==
  IF responseContent.kind = "array" THEN FromParts(responseContent.parts, << >>)
  ELSE IF responseContent.kind = "string" /\ responseContent.dataUri
       THEN <<"base64Match[0]">>
  ELSE << >>

\* The images array is read whatever was found before.
FromImagesAlways(generatedImage, images) ==
  IF \E k \in 1..Len(images) : images[k].type = "image_url" /\ images[k].url
  THEN <<"img.image_url.url">>
  ELSE << >>

\* The images array is read if nothing was found yet: its first image_url
\* entry with a url.
FromImages(generatedImage, images) ==
  IF generatedImage = << >>
     /\ \E k \in 1..Len(images) : images[k].type = "image_url" /\ images[k].url
  THEN <<"img.image_url.url">>
  ELSE generatedImage

\* message.image is taken if nothing was found yet.
FromMessageImage(generatedImage, message) ==
  IF generatedImage = << >> /\ message.image THEN <<"message.image">>
  ELSE generatedImage

\* generateIsometricRender from the service's reply on.
generateIsometricRender(response) ==
  IF ~response.ok THEN GenerationResult(TRUE, << >>, "API error")
  ELSE IF response.choices = << >>
       THEN GenerationResult(TRUE, << >>, "No response from AI model")
  ELSE LET message == response.choices[1]
       IN  GenerationResult(FALSE,
             FromMessageImage(FromImages(FromContent(message.content),
                                         message.images), message), "")

\* generateIsometricRender is called and the service has replied.
GenerateInit ==
  /\ xPc = "call"
  /\ xResponse \in ServiceResponses
  /\ xResult = << >>

\* generateIsometricRender is not called.
GenerateOff ==
  /\ xPc = "off"
  /\ xResponse = [ok |-> FALSE, choices |-> << >>]
  /\ xResult = << >>

\* generateIsometricRender returns or throws.
GenerateReturns ==
  /\ xPc = "call"
  /\ xResult' = <<generateIsometricRender(xResponse)>>
  /\ xPc' = "done"
  /\ UNCHANGED <<xResponse, devStore, deleting, served, pResp,
                 dvars, avars, ivars, rvars, pvars>>

GenerateNext == GenerateReturns

\* ------------------------------------------------------ the project store
\* The project API (one handler for GET, POST and DELETE) over its store.
\* A handler runs up to its next await and goes on after it; between the two
\* the handlers of other requests run.
ProjectIds == {"p1", "p2"}

SecretTokens == {"t1", "t2"}

\* A value that may be missing from the request.
Optional(S) == {<< >>} \cup {<<v>> : v \in S}

\* The requests: method, id (req.query.id or req.body.id) and secretToken.
ProjectRequests ==
  [method : {"GET", "POST", "DELETE", "PUT"}, id : Optional(ProjectIds),
   secretToken : Optional(SecretTokens)]

ProjectResponse(method, status) == [method |-> method, status |-> status]

\* The store with no project, and the store after setProject, deleteProject.
EmptyStore == [p \in ProjectIds |-> << >>]

setProject(s, id, data) == [s EXCEPT ![id] = <<data>>]

deleteProject(s, id) == [s EXCEPT ![id] = << >>]

\* The state over the projects stored by earlier requests.
ProjectInit ==
  /\ devStore \in [ProjectIds -> Optional(SecretTokens)]
  /\ deleting = {}
  /\ served = 0
  /\ pResp = ProjectResponse("", 0)

\* The project API is not called.
ProjectOff ==
  /\ devStore = EmptyStore
  /\ deleting = {}
  /\ served = 0
  /\ pResp = ProjectResponse("", 0)

\* GET: 400 without id, 404 for an unknown id, 200 with the project.
ProjectGet ==
  /\ served < MaxCalls
  /\ served' = served + 1
  /\ \E req \in ProjectRequests :
       /\ req.method = "GET"
       /\ pResp' = ProjectResponse("GET",
                     IF req.id = << >> THEN 400
                     ELSE IF devStore[req.id[1]] = << >> THEN 404 ELSE 200)
  /\ UNCHANGED <<devStore, deleting, xPc, xResponse, xResult,
                 dvars, avars, ivars, rvars, pvars>>

\* POST: 400 without id or secretToken, else the project is stored under its
\* id, whatever was stored there, and the response is 201.
ProjectPost ==
  /\ served < MaxCalls
  /\ served' = served + 1
  /\ \E req \in ProjectRequests :
       /\ req.method = "POST"
       /\ IF req.id = << >> \/ req.secretToken = << >>
          THEN /\ pResp' = ProjectResponse("POST", 400)
               /\ UNCHANGED devStore
          ELSE /\ devStore' = setProject(devStore, req.id[1], req.secretToken[1])
               /\ pResp' = ProjectResponse("POST", 201)
  /\ UNCHANGED <<deleting, xPc, xResponse, xResult,
                 dvars, avars, ivars, rvars, pvars>>

\* DELETE up to await getProject(id): 400 without id or secretToken, else
\* the project is read from the store.
ProjectDeleteRead ==
  /\ served < MaxCalls
  /\ served' = served + 1
  /\ \E req \in ProjectRequests :
       /\ req.method = "DELETE"
       /\ IF req.id = << >> \/ req.secretToken = << >>
          THEN /\ pResp' = ProjectResponse("DELETE", 400)
               /\ UNCHANGED deleting
          ELSE /\ deleting' = deleting \cup
                    {[id |-> req.id[1], secretToken |-> req.secretToken[1],
                      project |-> devStore[req.id[1]]]}
               /\ UNCHANGED pResp
  /\ UNCHANGED <<devStore, xPc, xResponse, xResult,
                 dvars, avars, ivars, rvars, pvars>>

\* The token test of DELETE on the project that was read.
TokenMatches(project, secretToken) == project = <<secretToken>>

\* DELETE from await getProject(id) on: 404 if no project was read, 403 if
\* its token is not the request's, else deleteProject(id) and 200.
ProjectDeleteCheck ==
  /\ \E c \in deleting :
       /\ deleting' = deleting \ {c}
       /\ IF c.project = << >>
          THEN /\ pResp' = ProjectResponse("DELETE", 404)
               /\ UNCHANGED devStore
          ELSE IF ~TokenMatches(c.project, c.secretToken)
          THEN /\ pResp' = ProjectResponse("DELETE", 403)
               /\ UNCHANGED devStore
          ELSE /\ devStore' = deleteProject(devStore, c.id)
               /\ pResp' = ProjectResponse("DELETE", 200)
  /\ UNCHANGED <<served, xPc, xResponse, xResult,
                 dvars, avars, ivars, rvars, pvars>>

\* Any other method: 405.
ProjectOtherMethod ==
  /\ served < MaxCalls
  /\ served' = served + 1
  /\ \E req \in ProjectRequests :
       /\ req.method \notin {"GET", "POST", "DELETE"}
       /\ pResp' = ProjectResponse(req.method, 405)
  /\ UNCHANGED <<devStore, deleting, xPc, xResponse, xResult,
                 dvars, avars, ivars, rvars, pvars>>

ProjectNext ==
  \/ ProjectGet
  \/ ProjectPost
  \/ ProjectDeleteRead
  \/ ProjectDeleteCheck
  \/ ProjectOtherMethod

\* The machines added to the five above are not running.
ExtraOff == GenerateOff /\ ProjectOff

\* ------------------------------------------------------- the specifications
\* One request to one detection handler.
InitDetect == DetectInit /\ AppInit /\ InpaintOff /\ RenderOff /\ ParseOff /\ ExtraOff

SpecDetect == InitDetect /\ [][DetectNext]_vars

\* The room-editing app under its user and the answers of its requests.
Init == AppInit /\ DetectOff /\ InpaintOff /\ RenderOff /\ ParseOff /\ ExtraOff

Spec == Init /\ [][Next]_vars

\* One call of inpaintRoom, or one request to the inpaint handler.
InitInpaint == InpaintInit /\ AppInit /\ DetectOff /\ RenderOff /\ ParseOff /\ ExtraOff

SpecInpaint == InitInpaint /\ [][InpaintNext]_vars

\* The render app under its user and the answers of its calls.
InitRender == RenderInit /\ AppInit /\ DetectOff /\ InpaintOff /\ ParseOff /\ ExtraOff

SpecRender == InitRender /\ [][RenderNext]_vars

\* One call of parseSvgPath.
InitParse == ParseInit /\ AppInit /\ DetectOff /\ InpaintOff /\ RenderOff /\ ExtraOff

SpecParse == InitParse /\ [][ParseNext]_vars

\* One call of generateIsometricRender.
InitGenerate ==
  /\ GenerateInit /\ ProjectOff
  /\ AppInit /\ DetectOff /\ InpaintOff /\ RenderOff /\ ParseOff

SpecGenerate == InitGenerate /\ [][GenerateNext]_vars

\* One request to one handler, a detection handler or the inpaint handler.
InitHandlers == InitDetect \/ InitInpaint

HandlersNext == DetectNext \/ InpaintNext

SpecHandlers == InitHandlers /\ [][HandlersNext]_vars

\* The render app when every call of generateIsometricRender settles.
SpecRenderFair ==
  InitRender /\ [][RenderNext]_vars /\ WF_vars(GenerateRenderReturns)

\* The annotate-and-render app over the storage of earlier sessions.
SpecAnnotate == InitRender /\ [][AnnotateNext]_vars

\* The project API serving its requests.
InitProject ==
  /\ ProjectInit /\ GenerateOff
  /\ AppInit /\ DetectOff /\ InpaintOff /\ RenderOff /\ ParseOff

SpecProject == InitProject /\ [][ProjectNext]_vars

\* The same under the runtime's scheduling: a step that can be taken (a timer
\* firing, a fetch settling, the code after an await) is eventually taken.
SpecInpaintFair == InitInpaint /\ [][InpaintNext]_vars /\ WF_vars(InpaintNext)

\* ------------------------------------------- properties of the handlers
Done == dPc = "done"

LastResp == dResps[Len(dResps)]

\* The rooms call was answered with a JSON array.
GotArray == dAnswer.kind = "value" /\ dAnswer.isArray

MinOf(S) == CHOOSE v \in S : \A w \in S : v <= w

MaxOf(S) == CHOOSE v \in S : \A w \in S : v >= w

\* The axis-aligned extent of a polygon, from its definition.
ExtentOf(polygon) ==
  LET xs == {polygon[i].x : i \in 1..Len(polygon)}
      ys == {polygon[i].y : i \in 1..Len(polygon)}
  IN  [x |-> MinOf(xs), y |-> MinOf(ys),
       width |-> MaxOf(xs) - MinOf(xs), height |-> MaxOf(ys) - MinOf(ys)]

NormalizedLen(h, room) ==
  LET p == IF h \in {"v1", "claude"}
           THEN PolygonOfPathOrArray(room) ELSE PolygonOfArray(room)
  IN  IF p.threw THEN 0 ELSE Len(p.val)

\* The 0-based positions of the records that normalize to 3 points or more.
KeptIndices(h, items) ==
  {k \in 0..(Len(items) - 1) : NormalizedLen(h, items[k + 1]) >= 3}

RoomIds(rooms) == {rooms[j].id : j \in 1..Len(rooms)}

\* C2 (as claimed): for any array the vision model returns, the handler
\* responds 200, the records that normalize to fewer than 3 points are
\* absent and the records with 3 points or more are present.
C2_ShortRecordsDropped ==
  (Done /\ dHandler \in {"v1", "v2", "v3", "claude"} /\ GotArray) =>
    /\ LastResp.status = 200
    /\ RoomIds(LastResp.rooms) = KeptIndices(dHandler, dAnswer.items)
    /\ Len(LastResp.rooms) = Cardinality(KeptIndices(dHandler, dAnswer.items))

\* C3 (as claimed): no handler reports success with an empty region set.
C3_NoEmptySuccess ==
  \A i \in 1..Len(dResps) : dResps[i].status = 200 => dResps[i].rooms # << >>

\* A record no handler can normalize: null, a polygon that is no list, or a
\* polygon with a null entry.
Malformed(h, room) ==
  IF h \in {"v1", "claude"}
  THEN PolygonOfPathOrArray(room).threw ELSE PolygonOfArray(room).threw

\* C4 (as claimed): in the single-pass and two-pass handlers, one malformed
\* record among valid ones is dropped alone: the response is 200 and holds
\* the rooms of all the valid records.
C4_MalformedRecordDroppedAlone ==
  (/\ Done /\ dHandler \in {"v1", "v2"} /\ GotArray
   /\ Cardinality({k \in 1..Len(dAnswer.items) :
                     Malformed(dHandler, dAnswer.items[k])}) = 1
   /\ KeptIndices(dHandler, dAnswer.items) # {})
    =>
    /\ LastResp.status = 200
    /\ RoomIds(LastResp.rooms) = KeptIndices(dHandler, dAnswer.items)

\* A trace call failed: a remote error or an answer that is no JSON.
TraceFails(ans) == ans.kind \in {"neterr", "http", "nochoices", "badjson"}

\* The points of a trace answer's polygon: the clamped points of a polygon
\* list without a null entry, none for any other answer.
TracedPolygon(ans) ==
  IF /\ ans.kind = "value" /\ ~ans.isNull /\ ~ans.isArray /\ ans.items # << >>
     /\ ans.items[1].polygon.kind = "list"
     /\ \A i \in 1..Len(ans.items[1].polygon.pts) :
          ans.items[1].polygon.pts[i].kind = "obj"
  THEN [i \in 1..Len(ans.items[1].polygon.pts) |->
          [x |-> Clamp(OrDefault(ans.items[1].polygon.pts[i].x, 0)),
           y |-> Clamp(OrDefault(ans.items[1].polygon.pts[i].y, 0))]]
  ELSE << >>

\* The per-room-trace handler has traced every enumerated room.
TracedAll == dHandler = "v4" /\ Done /\ GotArray /\ dAnswer.items # << >>

\* The rooms whose trace did not fail and has 3 points or more (0-based).
TracedOk ==
  {k \in 0..(Len(dAnswer.items) - 1) :
     ~TraceFails(tAns[k + 1]) /\ Len(TracedPolygon(tAns[k + 1])) >= 3}

Pass1Failed ==
  \/ dPass1.kind \in {"neterr", "http", "nochoices", "badjson"}
  \/ dPass1.kind = "value" /\ dPass1.items = << >>

\* C10 (as claimed): in the two-pass handler, whenever pass 1 fails, pass 2
\* is still issued with the bounds of the full image and the response is the
\* one pass 2 decides.
C10_Pass1FailureFallsBack ==
  (dHandler = "v2" /\ Done /\ Pass1Failed) =>
    /\ dPrompt = <<FullImage>>
    /\ dAnswer # NoAnswer
    /\ LastResp = Pass2Response(dAnswer)

\* --------------------------------------------------- properties of the app
\* A step in which handleInpaint's catch ran: its alert was shown.
InpaintFailedStep == alerts' # alerts

\* C5: a step in which an inpaint call fails (fetch rejecting, a non-success
\* status, the poll timeout) leaves galleryImages, currentIndex and every
\* other signal as they were; its only change of the app's signals is
\* isInpainting going from true to false.
C5_FailedInpaintWritesNothing ==
  [][InpaintFailedStep =>
       /\ galleryImages' = galleryImages
       /\ currentIndex' = currentIndex
       /\ isInpainting /\ ~isInpainting'
       /\ UNCHANGED <<viewState, imageData, detectedRooms, selectedRoom,
                      isDetectingRooms, roomDetectionError, detectionMethod,
                      renderError>>]_vars

\* C5 witness: the one submission made has failed; the panel is still open
\* and the displayed entry still holds the render it held.
C5_Witness ==
  /\ alerts = 1 /\ nextInpaint = 2 /\ inpaints = {}
  /\ ~isInpainting
  /\ PanelMounted
  /\ CurrentImage # << >>
  /\ CurrentImage[1].type = "render"
  /\ CurrentImage[1].data = Rendered(imageData, CurrentImage[1].style)

\* C6: whatever the user does, at most one inpaint request is outstanding,
\* and isInpainting is true as long as one is.
C6_AtMostOneInpaintOutstanding ==
  /\ Cardinality(inpaints) <= 1
  /\ inpaints # {} => isInpainting

\* C6 witness: a request is outstanding while the panel is open on another
\* room with a prompt that could be submitted.
C6_Witness ==
  /\ PanelMounted
  /\ Trim(panelPrompt) # << >>
  /\ CurrentImage # << >>
  /\ \E r \in inpaints : r.roomId # selectedRoom[1].id

\* C7 (as claimed): whenever detectedRooms is non-empty, it is the result of
\* the detection run started last, and that run was made on the current
\* source image.
C7_RoomsOfLatestRunOnCurrentImage ==
  Len(detectedRooms) > 0 =>
    /\ roomsRun = lastRun.id
    /\ lastRun.image = imageData

\* ---------------------------------------- properties of the inpaint path
\* The strength of the submission lies outside [0.3, 1.0].
StrengthOutOfRange ==
  iReq.strength # << >> /\ (iReq.strength[1] < 30 \/ iReq.strength[1] > 100)

\* C8 (as claimed): a submission whose strength lies outside [0.3, 1.0]
\* causes no request to the inpaint endpoint and no call to the provider.
C8_StrengthOutOfRangeRejected ==
  StrengthOutOfRange => (iFetches = 0 /\ iCalls = << >>)

\* ---------------------------------------- properties of the generation
\* The step in which Promise.all resolves for generation g with at least one
\* image: g moves on to saving.
GenerationSucceeds(g) ==
  g.phase = "rendering" /\ [g EXCEPT !.phase = "saving"] \notin gens
    /\ \E h \in gens' : h.id = g.id /\ h.phase = "saving"

\* The step in which Promise.all resolves for some generation without any
\* image.
EveryStyleFailed ==
  \E g \in gens : g.phase = "rendering" /\ (\A h \in gens' : h.id # g.id)

\* The step shows an error on the upload view.
ErrorShown == renderError' # Null /\ renderError' # renderError

\* C11 (as claimed): when the parallel style calls have resolved with at
\* least one image, the gallery is the original followed by one render per
\* successful style in style order, the displayed entry is the first render
\* and the view is 'render', whichever styles failed; and an error is shown
\* only by the step in which every style has failed.
C11_PartialFailureStillRenders ==
  [][/\ \A g \in gens : GenerationSucceeds(g) =>
          \E h \in gens' :
             /\ h.id = g.id /\ h.ok # {}
             /\ galleryImages' = NewImages(g.image, h.ok)
             /\ Len(galleryImages') = 1 + Cardinality(h.ok)
             /\ currentIndex' = 1
             /\ viewState' = "render"
             /\ renderError' = Null
     /\ ErrorShown => EveryStyleFailed]_vars

\* The handler has answered; its answer.
InpaintDone == iPc = "done" /\ iResps # << >>

InpaintLastResp == iResps[Len(iResps)]

\* The loop was left with the job neither succeeded nor failed.
TimedOut == iStatus \in PredictionStatuses \ {"succeeded", "failed"}
              /\ iAttempts = maxAttempts

C12_Bounded ==
  /\ iAttempts <= maxAttempts
  /\ InpaintDone =>
       /\ InpaintLastResp.status = 200 => iStatus = "succeeded"
       /\ TimedOut => InpaintLastResp = InpaintResponse(500, "Inpainting timed out")
       /\ InpaintLastResp.error = "Inpainting timed out" => TimedOut

\* C12: the polling loop issues at most 60 status requests and, once
\* entered, always leads to a response; a job neither succeeded nor failed
\* after them is answered with the error 'Inpainting timed out' and a
\* non-200 status, which no other outcome produces, and the answer is 200
\* only when the last observed status is 'succeeded'.
C12_PollingBoundedAndTerminates ==
  []C12_Bounded /\ ((iPc = "poll") ~> InpaintDone)

C12_Witness == InpaintDone /\ TimedOut /\ InpaintLastResp.status = 500

\* ---------------------------------------- properties of the render app
\* The step in which a call of handleGenerateRender ends without an image:
\* generateIsometricRender threw or returned no image.
GenerationFails ==
  \E j \in jobs : j.phase = "rendering" /\ (\A k \in jobs' : k.id # j.id)

C13_RenderShowsImage ==
  viewState = "render" =>
    renderResult # << >> /\ renderResult[1].kind = "render"

\* C13: whenever the view is 'render', renderResult is a non-null render
\* image; and a generation that brings no image leaves renderResult as it
\* was and ends with renderState 'error' and a message in renderError.
C13_RenderResultNonNullInRenderView ==
  /\ []C13_RenderShowsImage
  /\ [][GenerationFails =>
          /\ renderResult' = renderResult
          /\ renderState' = "error"
          /\ renderError' \notin {Null, ""}]_vars

C13_Witness ==
  /\ renderState = "error"
  /\ renderError = "No image returned from AI"
  /\ renderResult # << >>
  /\ viewState = "upload"

\* ---------------------------------------- properties of the emitted rooms
\* The rooms of the 200 responses sent.
EmittedRooms ==
  UNION {{dResps[i].rooms[j] : j \in 1..Len(dResps[i].rooms)} :
           i \in {k \in 1..Len(dResps) : dResps[k].status = 200}}

\* C14 (as claimed): every room emitted by any handler has a bbox inside the
\* image: 0 <= x, 0 <= y, x + width <= 100, y + height <= 100.
C14_BBoxInsideImage ==
  \A room \in EmittedRooms :
    /\ 0 <= room.bbox.x /\ 0 <= room.bbox.y
    /\ room.bbox.x + room.bbox.width <= Pct(100)
    /\ room.bbox.y + room.bbox.height <= Pct(100)

\* A coordinate as the claim has it: missing is 0, below 0 is 0, above 100
\* is 100, anything else is itself.
ClampedCoord(v) ==
  IF v = << >> THEN 0
  ELSE IF v[1] < 0 THEN 0
  ELSE IF v[1] > Pct(100) THEN Pct(100)
  ELSE v[1]

\* The answer was one record with a polygon array and no path, and a handler
\* that reads polygons emitted its room.
PolygonEmitted ==
  /\ Done /\ dHandler \in {"v1", "claude", "v2", "v3"} /\ GotArray
  /\ Len(dAnswer.items) = 1
  /\ dAnswer.items[1].kind = "obj" /\ dAnswer.items[1].path = << >>
  /\ dAnswer.items[1].polygon.kind = "list"
  /\ LastResp.status = 200 /\ Len(LastResp.rooms) = 1

\* C15 (as claimed): every coordinate of every polygon point of every
\* detection response lies in [0,100]; and a point of an input polygon is
\* emitted with each coordinate clamped: below 0 becomes 0, above 100
\* becomes 100, missing becomes 0, in range is unchanged.
C15_PolygonPointsClamped ==
  /\ \A room \in EmittedRooms : \A k \in 1..Len(room.polygon) :
       /\ 0 <= room.polygon[k].x /\ room.polygon[k].x <= Pct(100)
       /\ 0 <= room.polygon[k].y /\ room.polygon[k].y <= Pct(100)
  /\ PolygonEmitted =>
       LET pts == dAnswer.items[1].polygon.pts
           out == LastResp.rooms[1].polygon
       IN  /\ Len(out) = Len(pts)
           /\ \A k \in 1..Len(pts) :
                out[k] = [x |-> ClampedCoord(pts[k].x), y |-> ClampedCoord(pts[k].y)]

\* ---------------------------------------- properties of the path parser
\* What a piece of a path stands for: an M or L command (in either case)
\* followed by two numbers is that point, with each coordinate brought into
\* [0,100]; a close command, a command with one number and a curve command
\* are no point.
PiecePoints(f) ==
  CASE f = <<"M", " ", "1", "5", ",", "2", "0">> -> <<[x |-> 150, y |-> 200]>>
    [] f = <<" ", "L", "3", "5", " ", "2", "0">> -> <<[x |-> 350, y |-> 200]>>
    [] f = <<" ", "l", "-", "5", ",", " ", "1", "2", "0">> -> <<[x |-> 0, y |-> 1000]>>
    [] f = <<" ", "L", " ", "2", ".", "5", ",", "4", "0">> -> <<[x |-> 25, y |-> 400]>>
    [] f = <<" ", "L", " ", "3", "5", ",", "2", "0">> -> <<[x |-> 350, y |-> 200]>>
    [] f = <<" ", "L", " ", "3", "5", ",", "4", "0">> -> <<[x |-> 350, y |-> 400]>>
    [] f = <<" ", "L", " ", "2", "5", ",", "4", "0">> -> <<[x |-> 250, y |-> 400]>>
    [] f = <<" ", "L", " ", "2", "5", ",", "5", "5">> -> <<[x |-> 250, y |-> 550]>>
    [] f = <<" ", "L", " ", "1", "5", ",", "5", "5">> -> <<[x |-> 150, y |-> 550]>>
    [] OTHER -> << >>

RECURSIVE PiecesPoints(_)
PiecesPoints(fs) ==
  IF fs = << >> THEN << >> ELSE PiecePoints(Head(fs)) \o PiecesPoints(Tail(fs))

\* C16: parseSvgPath returns exactly one point per M or L command followed
\* by two numbers (separated by commas or whitespace, with optional sign and
\* decimals), in the order met; Z and every unrecognized or malformed piece
\* adds nothing and nothing is raised.  The example path gives exactly its
\* 6 points.
C16_OnePointPerCommand ==
  pPc = "done" =>
    /\ pPoints = PiecesPoints(pFrags)
    /\ pFrags = ExampleFrags =>
         pPoints = <<[x |-> 150, y |-> 200], [x |-> 350, y |-> 200],
                     [x |-> 350, y |-> 400], [x |-> 250, y |-> 400],
                     [x |-> 250, y |-> 550], [x |-> 150, y |-> 550]>>

C16_Witness == pPc = "done" /\ pFrags = ExampleFrags /\ Len(pPoints) = 6

\* The record carries a bounding box only, and the box lies inside the
\* image.
BoxInsideImage(room) ==
  /\ room.kind = "obj" /\ room.path = << >> /\ room.polygon.kind = "absent"
  /\ room.bounds.kind = "obj"
  /\ room.bounds.x # << >> /\ room.bounds.y # << >>
  /\ room.bounds.width # << >> /\ room.bounds.height # << >>
  /\ 0 <= room.bounds.x[1] /\ 0 <= room.bounds.y[1]
  /\ room.bounds.width[1] >= Pct(1) /\ room.bounds.height[1] >= Pct(1)
  /\ room.bounds.x[1] + room.bounds.width[1] <= Pct(100)
  /\ room.bounds.y[1] + room.bounds.height[1] <= Pct(100)

\* The rectangle of a box, from its top-left corner clockwise.
RectangleOf(b) ==
  <<[x |-> b.x[1], y |-> b.y[1]],
    [x |-> b.x[1] + b.width[1], y |-> b.y[1]],
    [x |-> b.x[1] + b.width[1], y |-> b.y[1] + b.height[1]],
    [x |-> b.x[1], y |-> b.y[1] + b.height[1]]>>

\* The bounds-only handler answered 200 to an array.
BoundsEmitted ==
  Done /\ dHandler = "bounds" /\ GotArray /\ LastResp.status = 200

ExampleBox == BoundsObj(<<Pct(10)>>, <<Pct(15)>>, <<Pct(35)>>, <<Pct(40)>>)

\* C17: for a record carrying only a bounding box that lies inside the
\* image, the emitted polygon is exactly the 4 points (x,y), (x+width,y),
\* (x+width,y+height), (x,y+height) in that order; for
\* {x:10, y:15, width:35, height:40} it is [(10,15),(45,15),(45,55),(10,55)].
C17_BoxBecomesRectangle ==
  BoundsEmitted =>
    /\ Len(LastResp.rooms) = Len(dAnswer.items)
    /\ \A k \in 1..Len(dAnswer.items) :
         /\ BoxInsideImage(dAnswer.items[k]) =>
              LastResp.rooms[k].polygon = RectangleOf(dAnswer.items[k].bounds)
         /\ (BoxInsideImage(dAnswer.items[k])
               /\ dAnswer.items[k].bounds = ExampleBox) =>
              LastResp.rooms[k].polygon =
                <<[x |-> 100, y |-> 150], [x |-> 450, y |-> 150],
                  [x |-> 450, y |-> 550], [x |-> 100, y |-> 550]>>

C17_Witness ==
  /\ BoundsEmitted /\ Len(dAnswer.items) = 1
  /\ BoxInsideImage(dAnswer.items[1])
  /\ dAnswer.items[1].bounds.x[1] + dAnswer.items[1].bounds.width[1] = Pct(100)
  /\ Len(LastResp.rooms[1].polygon) = 4

\* C18 (as claimed): in every 200 response the k-th room of the list
\* (0-based, after the dropped records are gone) has the id room-k.
C18_IdsContiguous ==
  \A i \in 1..Len(dResps) :
    dResps[i].status = 200 =>
      \A j \in 1..Len(dResps[i].rooms) : dResps[i].rooms[j].id = j - 1

\* C19: within one response no two rooms have the same id, whichever the
\* handler, including per-room trace, whose rooms come from several batches.
C19_IdsUnique ==
  \A i \in 1..Len(dResps) :
    \A j, k \in 1..Len(dResps[i].rooms) :
      j # k => dResps[i].rooms[j].id # dResps[i].rooms[k].id

\* C19 witness: per-room trace returned rooms of its second batch beside
\* rooms of its first.
C19_Witness ==
  /\ TracedAll /\ LastResp.status = 200
  /\ Len(dAnswer.items) > BatchSize
  /\ \E j, k \in 1..Len(LastResp.rooms) :
       LastResp.rooms[j].id < BatchSize /\ LastResp.rooms[k].id >= BatchSize

\* ---------------------------------------- properties of successive edits
\* The step in which the inpaint request r returns with a result.
InpaintSucceeds(r) == r \in inpaints /\ r \notin inpaints' /\ alerts' = alerts

\* C20 (as claimed): each inpaint request carries the data held by the
\* displayed gallery entry when it is submitted; and when an edit succeeds,
\* the entry it was submitted on holds the result from then on, so that the
\* next edit on that entry is sent the previous edit's result and not the
\* pre-edit render.
C20_EditsCompose ==
  [][/\ \A r \in inpaints' \ inpaints :
          CurrentImage # << >> /\ r.imageUrl = CurrentImage[1].data
     /\ \A r \in inpaints : InpaintSucceeds(r) =>
          \A k \in 1..Len(galleryImages) :
             galleryImages[k].data = r.imageUrl =>
               /\ k <= Len(galleryImages')
               /\ galleryImages'[k].data = Inpainted(r.id)]_vars

\* ---------------------------------------- properties of an applied edit
\* C21 (as claimed): after an edit is applied, the new full image is, outside
\* the edited room's padded crop rectangle, identical to the image that was
\* submitted.
C21_OutsideCropUntouched ==
  (InpaintDone /\ InpaintLastResp.status = 200) =>
    InpaintLastResp.fullImageUrl["outside"] = "same"

\* C22 (as claimed): when the selected room has no maskUrl, the mask of the
\* inpaint call is derived from the room's polygon.
C22_MaskFallsBackToPolygon ==
  \A k \in 1..Len(iCalls) : ~iReq.maskUrl => iCalls[k].mask = "polygon"

\* The prompt is empty or whitespace only.
Blank(prompt) == \A k \in 1..Len(prompt) : prompt[k] = " "

\* C23: a submission from the panel whose prompt is empty or whitespace only
\* ends in handleSubmit: onInpaint is not called, no request is sent to the
\* inpaint endpoint, no prediction is created and nothing is answered.
C23_BlankPromptRejectedLocally ==
  [][(iPc = "panel" /\ Blank(iReq.prompt)) =>
       /\ iPc' = "done"
       /\ iFetches' = 0 /\ iCalls' = << >> /\ iResps' = << >>]_vars

C23_Witness ==
  /\ iPc = "done" /\ iReq.prompt = <<" ">> /\ iReq \in PanelRequests
  /\ iFetches = 0 /\ iCalls = << >> /\ iResps = << >>


\* C24: generateIsometricRender returns a non-null image whenever the
\* response message carries an image in one of the three shapes (a base64
\* data URI inside string content, a hosted image URL, an image part in array
\* content), and a null image only when none of the three is present.
DataUriInString(message) ==
  message.content.kind = "string" /\ message.content.dataUri

HostedImageUrl(message) ==
  \/ message.image
  \/ \E k \in 1..Len(message.images) : message.images[k].url

ImagePartInArray(message) ==
  /\ message.content.kind = "array"
  /\ \E k \in 1..Len(message.content.parts) :
       \/ message.content.parts[k].image_url # "absent"
       \/ message.content.parts[k].inline_data

CarriesImage(message) ==
  DataUriInString(message) \/ HostedImageUrl(message) \/ ImagePartInArray(message)

C25_DeleteNeedsToken ==
  [][/\ \A p \in ProjectIds :
          (devStore[p] # << >> /\ devStore'[p] = << >>) =>
            \E c \in deleting \ deleting' :
              c.id = p /\ devStore[p] = <<c.secretToken>>
     /\ (pResp' # pResp /\ pResp'.method = "DELETE"
          /\ pResp'.status \in {400, 403, 404}) => devStore' = devStore]_vars


\* C26: in the annotate-and-render app at most one render-generation job is
\* in flight at any time: once a generation has started, no sequence of user
\* actions starts a second one before the first one's response has arrived.
C26_OneGenerationInFlight ==
  Cardinality({j \in jobs : j.phase = "rendering"}) <= 1


\* C27: every invocation of a detection or inpaint handler, whatever the
\* remote service does, ends with exactly one HTTP response, and every
\* failure is reported as a JSON {error} body with a non-200 status.
ErrorBody(r) == r.status \in 400..599 /\ r.error # ""

SuccessBody(r) == r.status = 200 /\ r.error = ""

RemoteCallFailed == dAnswer.kind \in {"neterr", "http", "nochoices", "badjson"}

\* The steps a handler has left at most: every step of a handler lowers it,
\* so a handler that always has a step to take until it has answered does
\* answer.
BatchesLeft ==
  Cardinality({k \in 1..Len(dAnswer.items) : tI + k * BatchSize < Len(dAnswer.items)})

DetectStepsLeft ==
  CASE dPc = "start"    -> 200
    [] dPc = "identify" -> 100
    [] dPc = "pass1"    -> 2
    [] dPc = "pass2"    -> 1
    [] dPc = "call"     -> 1
    [] dPc = "batch"    -> (BatchSize + 2) * (BatchesLeft + 1)
    [] dPc = "tracing"  -> 1 + Cardinality(tOut) + (BatchSize + 2) * BatchesLeft
    [] OTHER            -> 0

InpaintStepsLeft ==
  CASE iPc = "panel"  -> maxAttempts + 6
    [] iPc = "client" -> maxAttempts + 5
    [] iPc = "start"  -> maxAttempts + 4
    [] iPc = "create" -> maxAttempts + 3
    [] iPc = "poll"   -> 1 + maxAttempts - iAttempts
    [] OTHER          -> 0

\* The handler is before its response and not at the end of a batch (where
\* the loop goes on if rooms are left and the handler answers if not).
AwaitingCall ==
  dPc \notin {"off", "done"} /\ ~(dPc = "tracing" /\ tOut = {})

C27_OneResponseErrorsReported ==
  /\ [](Len(dResps) <= 1 /\ Len(iResps) <= 1)
  /\ [](AwaitingCall => ENABLED DetectNext)
  /\ [](iPc \notin {"off", "done"} => ENABLED InpaintNext)
  /\ [][DetectStepsLeft' < DetectStepsLeft \/ InpaintStepsLeft' < InpaintStepsLeft]_vars
  /\ [][(dPc # "done" /\ dPc' = "done") =>
          /\ Len(dResps') = 1
          /\ SuccessBody(dResps'[1]) \/ ErrorBody(dResps'[1])
          /\ RemoteCallFailed' => ErrorBody(dResps'[1])]_vars
  /\ [][(iPc \notin {"done", "panel"} /\ iPc' = "done") =>
          /\ Len(iResps') = 1
          /\ SuccessBody(iResps'[1]) \/ ErrorBody(iResps'[1])
          /\ iStatus' # "succeeded" => ErrorBody(iResps'[1])]_vars

\* The per-room trace handler whose first call came back without choices.
C27_Witness ==
  /\ dHandler = "v4" /\ dPc = "done" /\ dAnswer.kind = "nochoices"
  /\ dResps = <<Response(500, << >>, "No response from vision model")>>


\* C28: in per-room-trace detection at most 4 trace calls are outstanding at
\* every moment, and no call of batch k+1 is issued before every call of
\* batch k has resolved, successfully or with a swallowed failure.
Resolved(q) == q \notin tOut /\ tAns[q + 1] # NoAnswer

C28_BatchesOfFourInTurn ==
  /\ [](Cardinality(tOut) <= 4)
  /\ [][\A p \in tOut' \ tOut :
          \A q \in 0..(p - 1) : (q \div 4) < (p \div 4) => Resolved(q)]_vars

\* The fifth room's trace is outstanding, alone, after the first four.
C28_Witness ==
  /\ dHandler = "v4" /\ dPc = "tracing" /\ tOut = {4}
  /\ \A q \in 0..3 : Resolved(q)
  /\ \E q \in 0..3 : CallThrows(tAns[q + 1])


\* C29: a successful inpaint replaces the data of exactly one gallery entry
\* with the result's fullImageUrl and leaves everything else unchanged: the
\* other entries, that entry's type, style and label, the gallery length,
\* currentIndex and detectedRooms.
SameButData(a, b) == a.type = b.type /\ a.style = b.style /\ a.label = b.label

C29_InpaintReplacesOneEntry ==
  [][\A r \in inpaints : InpaintSucceeds(r) =>
       /\ Len(galleryImages') = Len(galleryImages)
       /\ \E k \in 1..Len(galleryImages) :
            /\ galleryImages'[k].data = Inpainted(r.id)
            /\ SameButData(galleryImages'[k], galleryImages[k])
            /\ \A m \in 1..Len(galleryImages) :
                 m # k => galleryImages'[m] = galleryImages[m]
       /\ currentIndex' = currentIndex
       /\ detectedRooms' = detectedRooms]_vars


\* C30: every run of handleGenerateRender that sets renderState to
\* 'generating' leaves it: once the remote call resolves or rejects,
\* renderState becomes 'done' or 'error', the viewState leaves 'generating'
\* and the simulated-progress interval is cleared.
Generating(id) == \E j \in jobs : j.id = id /\ j.phase = "rendering"

C30_GeneratingIsLeft ==
  /\ \A id \in 1..MaxJobs : Generating(id) ~> ~Generating(id)
  /\ [][\A id \in 1..MaxJobs :
          /\ (~Generating(id) /\ Generating(id)') =>
               renderState' = "generating" /\ viewState' = "generating"
          /\ (Generating(id) /\ ~Generating(id)') =>
               /\ renderState' \in {"done", "error"}
               /\ viewState' \in {"render", "upload"}
               /\ \A j \in jobs' : j.id = id => ~j.interval]_vars
  /\ [](\A j \in jobs : j.interval => j.phase = "rendering")

\* A generation has returned its image: the job is saving its project with
\* its interval cleared.
C30_Witness ==
  /\ renderState = "done" /\ viewState = "render"
  /\ \E j \in jobs : j.phase = "saving" /\ ~j.interval

\* ------------------------------------ properties of the app under interleaving
\* C31: a successful inpaint result is written to the gallery entry whose
\* data was sent in the request: if the user leaves edit mode and navigates
\* the gallery, or starts over, while the request is outstanding, the result
\* still lands on the entry it was computed from and on no other.
EntryAt(images, k) == IF k \in 1..Len(images) THEN <<images[k]>> ELSE << >>

C31_ResultLandsOnSentEntry ==
  [][\A r \in inpaints : InpaintSucceeds(r) =>
       \A k \in 1..Max(Len(galleryImages), Len(galleryImages')) :
          EntryAt(galleryImages', k) # EntryAt(galleryImages, k) =>
            /\ k <= Len(galleryImages)
            /\ galleryImages[k].data = r.imageUrl]_vars


\* C32: the gallery entry of type 'original' always holds the uploaded source
\* image: no sequence of edits, navigation and response arrivals changes its
\* data, and an inpaint is only ever applied to entries of type 'render'.
C32_OriginalNeverEdited ==
  /\ [](\A k \in 1..Len(galleryImages) :
          galleryImages[k].type = "original" =>
            \E image \in Images : galleryImages[k].data = Upload(image))
  /\ [][\A r \in inpaints : InpaintSucceeds(r) =>
          \A k \in 1..Max(Len(galleryImages), Len(galleryImages')) :
             EntryAt(galleryImages', k) # EntryAt(galleryImages, k) =>
               /\ k <= Len(galleryImages)
               /\ galleryImages[k].type = "render"]_vars

\* Generate 3D is offered: the planning view with the button enabled
\* (disabled={isDetectingRooms() || detectedRooms().length === 0}).
GenerateOffered ==
  viewState = "planning" /\ ~isDetectingRooms /\ Len(detectedRooms) # 0

\* The method toggle is offered (disabled={isDetectingRooms()}).
ToggleOffered == viewState = "planning" /\ ~isDetectingRooms

\* C33 (as claimed): isDetectingRooms is true whenever a detection request is
\* outstanding, so neither Generate 3D nor the method toggle is offered while
\* a detection of the current image has not answered.
C33_DetectingWhileOutstanding ==
  /\ runs # {} => isDetectingRooms
  /\ (GenerateOffered \/ ToggleOffered) =>
       \A r \in runs : r.image # imageData

\* The rooms of a run are displayed / its error is displayed.
DetectedRoomsShown == Len(detectedRooms) # 0 /\ roomDetectionError = Null

DetectionErrorShown == Len(detectedRooms) = 0 /\ roomDetectionError # Null

\* C34 (as claimed): whenever no detection is in progress after a run has
\* finished (past the upload view, which Back and New return to with both
\* cleared), exactly one outcome is displayed: rooms without an error, or an
\* error without rooms.
C34_ExactlyOneOutcome ==
  (viewState # "upload" /\ ~isDetectingRooms) => (DetectedRoomsShown \/ DetectionErrorShown)

\* The step in which saveProjectLocally settles for generation g.
SaveSettles(g) == g.phase = "saving" /\ g \notin gens'

\* C35 (as claimed): once generation has produced an image, the settling of
\* the local save, failed or not, leaves the view, the gallery with the
\* generated image and the generation error as they were: the render is not
\* taken away and no error is reported.
C35_SaveFailureKeepsRender ==
  [][\A g \in gens : SaveSettles(g) =>
       /\ viewState' = viewState
       /\ galleryImages' = galleryImages
       /\ currentIndex' = currentIndex
       /\ renderError' = renderError]_vars

\* The inpaint requests submitted by the step.
Submitted == inpaints' \ inpaints

\* The room selected for the edit is one of the rooms detected now.
SelectedIsDetected ==
  \E k \in 1..Len(detectedRooms) : selectedRoom = <<detectedRooms[k]>>

\* C36 (as claimed): whenever an inpaint request is submitted, the room it
\* names is an element of the current detectedRooms, which are the rooms of
\* the latest detection run, made on the current source image.
C36_SubmittedRoomIsCurrent ==
  [][\A r \in Submitted :
       /\ r.roomId \in RoomIds(detectedRooms)
       /\ SelectedIsDetected
       /\ roomsRun = lastRun.id
       /\ lastRun.image = imageData]_vars

\* C37 (as claimed): once a project is stored under an id, the stored project
\* and its token change only by a request carrying that token: the only
\* change is the removal by a DELETE whose secretToken is the stored one, and
\* a POST re-using the id with another token does not replace the project.
C37_StoredProjectNeedsToken ==
  [][\A p \in ProjectIds :
       (devStore[p] # << >> /\ devStore'[p] # devStore[p]) =>
         /\ devStore'[p] = << >>
         /\ \E c \in deleting \ deleting' :
              c.id = p /\ devStore[p] = <<c.secretToken>>]_vars

====
